---- MODULE Spec2Model ----
(***************************************************************************)
(* Retirement projection engine (finlib.py, retirement_planner.py) and its *)
(* single-file copy (financial_planning.py).                               *)
(*                                                                         *)
(* The engine is a set of pure functions.  Each specification below draws  *)
(* the arguments of one call in Init and has one action per function; the  *)
(* action applies the function and stores what the call produced: a value, *)
(* or the exception that ended it, and the advisories it emitted.          *)
(*                                                                         *)
(* Numbers.  The Python code computes in binary floating point; the model  *)
(* computes the same expressions in exact arithmetic:                      *)
(*   - the tax engine takes whole-dollar amounts and holds every product   *)
(*     amount x rate as an integer count of 1/Unit dollar (all rates of    *)
(*     the tables are multiples of 1/Unit);                                *)
(*   - the principal formulas work on rationals [n, d], d > 0, in lowest   *)
(*     terms.                                                              *)
(* Rounding of floating point is therefore not modelled.                   *)
(***************************************************************************)
EXTENDS Integers, Sequences, FiniteSets, TLC

VARIABLES pc, income, gain, status, dur, ret, infl, scenario, result

vars == <<pc, income, gain, status, dur, ret, infl, scenario, result>>

(***************************************************************************)
(* Bounds of the model.                                                    *)
(***************************************************************************)
\* the tax engine is exercised on the grid 0, IncomeStep, 2*IncomeStep, ...
IncomeStep == 50000
MaxIncomeSteps == 20
\* capital gains tried: multiples of GainStep plus the gains 0 and 1
GainStep == 30000
MaxGainSteps == 2
\* principal formulas: desired income 0..MaxDesired (dollars), duration in years
MaxDesired == 2
MaxDuration == 2
\* rates are multiples of half a percent from -RateBelow/200 to MaxRate/200
RateBelow == 2
MaxRate == 15
\* contribution sizing: target 0..MaxTarget (dollars) over 0..MaxYears years
MaxTarget == 2
MaxYears == 2
\* account analysis: an income of 0..MaxFuture x MoneyUnit dollars wanted in
\* retirement, 0..MaxInvest years of saving, 0..MaxRetire years of retirement,
\* a current income of 0..MaxCurrent x MoneyUnit dollars
MaxFuture == 2
MaxInvest == 2
MaxRetire == 1
MaxCurrent == 1
\* the orchestrator: 0..MaxQuality x MoneyUnit dollars wanted, in today's money
MaxQuality == 2

(***************************************************************************)
(* Arithmetic helpers.                                                     *)
(***************************************************************************)
Min(a, b) == IF a <= b THEN a ELSE b
Max(a, b) == IF a >= b THEN a ELSE b
Abs(a) == IF a < 0 THEN 0 - a ELSE a

RECURSIVE GCD(_, _)
GCD(a, b) == IF b = 0 THEN a ELSE GCD(b, a % b)

\* the rational n/d in lowest terms with a positive denominator (d # 0)
R(n, d) ==
    LET g == GCD(Abs(n), Abs(d))
        s == IF d < 0 THEN 0 - 1 ELSE 1
    IN  [n |-> s * (n \div g), d |-> s * (d \div g)]

Zero == R(0, 1)
One == R(1, 1)
\* sums go over the least common denominator
RAdd(x, y) ==
    LET g == GCD(x.d, y.d)
    IN  R(x.n * (y.d \div g) + y.n * (x.d \div g), x.d * (y.d \div g))
RSub(x, y) ==
    LET g == GCD(x.d, y.d)
    IN  R(x.n * (y.d \div g) - y.n * (x.d \div g), x.d * (y.d \div g))
\* cross-cancel before multiplying so that no intermediate exceeds the result
RMul(x, y) ==
    LET a == R(x.n, y.d)
        b == R(y.n, x.d)
    IN  R(a.n * b.n, a.d * b.d)
\* x / y, y # 0
RDiv(x, y) == RMul(x, R(y.d, y.n))
\* x < y, by the whole parts and then the reciprocals of the remainders, so
\* that no product is formed
RECURSIVE RLt(_, _)
RLt(x, y) ==
    LET wx == x.n \div x.d
        wy == y.n \div y.d
        rx == x.n % x.d
        ry == y.n % y.d
    IN  IF wx # wy THEN wx < wy
        ELSE IF ry = 0 THEN FALSE
        ELSE IF rx = 0 THEN TRUE
        ELSE RLt([n |-> y.d, d |-> ry], [n |-> x.d, d |-> rx])
RLe(x, y) == ~RLt(y, x)
RECURSIVE RPow(_, _)
RPow(x, k) == IF k = 0 THEN One ELSE RMul(x, RPow(x, k - 1))

(***************************************************************************)
(* Results of a call.                                                      *)
(***************************************************************************)
NoWarnings == {}
Ok(v, r, w) == [kind |-> "ok", value |-> v, rate |-> r, warnings |-> w]
Raise(e, w) == [kind |-> e, value |-> 0, rate |-> Zero, warnings |-> w]
NoResult == [kind |-> "none", value |-> 0, rate |-> Zero, warnings |-> NoWarnings]

\* the arguments that only the account analyzers and the orchestrator take;
\* NoScenario where the call has none of them
NoScenario ==
    [years |-> 0, goal |-> "Sustainable", match |-> Zero, limit_ira |-> Zero,
     limit_401k |-> Zero, current |-> 0]

(***************************************************************************)
(* Tax engine (finlib.py).                                                 *)
(***************************************************************************)
\* amounts of tax are integers in 1/Unit dollar: 0.0145 = 29/2000 is the
\* finest rate of the tables
Unit == 2000
\* the rate n/d as a count of 1/Unit
Rate(n, d) == (n * Unit) \div d

\* an upper bound of a bracket: a dollar amount or float('inf')
Fin(x) == [inf |-> FALSE, v |-> x]
Inf == [inf |-> TRUE, v |-> 0]
\* x <= b
LeB(x, b) == b.inf \/ x <= b.v
\* min(x, b - prev) for a finite prev
MinToB(x, b, prev) == IF b.inf THEN x ELSE Min(x, b.v - prev)

FilingStatuses == {"single", "married_joint", "married_separate", "head_household"}

social_security_cap == 168600

addl_medicare_threshold ==
    [single |-> 200000, married_joint |-> 250000,
     married_separate |-> 125000, head_household |-> 200000]

\* variant: above the threshold the surcharge is due on the whole income
calculate_fica_SurchargeOnAll(inc, st) ==
    LET ss_tax == Min(inc, social_security_cap) * Rate(62, 1000)
        medicare_tax == inc * Rate(145, 10000)
    IN  IF st \notin DOMAIN addl_medicare_threshold
        THEN Raise("KeyError", NoWarnings)
        ELSE LET addl_medicare ==
                     IF inc > addl_medicare_threshold[st]
                     THEN inc * Rate(9, 1000)
                     ELSE 0
             IN  Ok(ss_tax + medicare_tax + addl_medicare, Zero, NoWarnings)

\* variant: Social Security tax without the wage cap
calculate_fica_NoCap(inc, st) ==
    LET ss_tax == inc * Rate(62, 1000)
        medicare_tax == inc * Rate(145, 10000)
    IN  IF st \notin DOMAIN addl_medicare_threshold
        THEN Raise("KeyError", NoWarnings)
        ELSE LET addl_medicare ==
                     IF inc > addl_medicare_threshold[st]
                     THEN (inc - addl_medicare_threshold[st]) * Rate(9, 1000)
                     ELSE 0
             IN  Ok(ss_tax + medicare_tax + addl_medicare, Zero, NoWarnings)

\* The two taxes are computed first; the table lookup of the surcharge
\* threshold raises KeyError for a status that is not a key.
calculate_fica(inc, st) ==
    LET ss_tax == Min(inc, social_security_cap) * Rate(62, 1000)
        medicare_tax == inc * Rate(145, 10000)
    IN  IF st \notin DOMAIN addl_medicare_threshold
        THEN Raise("KeyError", NoWarnings)
        ELSE LET addl_medicare ==
                     IF inc > addl_medicare_threshold[st]
                     THEN (inc - addl_medicare_threshold[st]) * Rate(9, 1000)
                     ELSE 0
             IN  Ok(ss_tax + medicare_tax + addl_medicare, Zero, NoWarnings)

brackets ==
    [single |->
        << <<Fin(11600), Rate(10, 100)>>, <<Fin(47150), Rate(12, 100)>>,
           <<Fin(100525), Rate(22, 100)>>, <<Fin(191950), Rate(24, 100)>>,
           <<Fin(243725), Rate(32, 100)>>, <<Fin(609350), Rate(35, 100)>>,
           <<Inf, Rate(37, 100)>> >>,
     married_joint |->
        << <<Fin(23200), Rate(10, 100)>>, <<Fin(94300), Rate(12, 100)>>,
           <<Fin(201050), Rate(22, 100)>>, <<Fin(383900), Rate(24, 100)>>,
           <<Fin(487450), Rate(32, 100)>>, <<Fin(731200), Rate(35, 100)>>,
           <<Inf, Rate(37, 100)>> >>,
     married_separate |->
        << <<Fin(11600), Rate(10, 100)>>, <<Fin(47150), Rate(12, 100)>>,
           <<Fin(100525), Rate(22, 100)>>, <<Fin(191950), Rate(24, 100)>>,
           <<Fin(243725), Rate(32, 100)>>, <<Fin(365600), Rate(35, 100)>>,
           <<Inf, Rate(37, 100)>> >>,
     head_household |->
        << <<Fin(16550), Rate(10, 100)>>, <<Fin(63100), Rate(12, 100)>>,
           <<Fin(100500), Rate(22, 100)>>, <<Fin(191950), Rate(24, 100)>>,
           <<Fin(243700), Rate(32, 100)>>, <<Fin(609350), Rate(35, 100)>>,
           <<Inf, Rate(37, 100)>> >>]

std_deduction ==
    [single |-> 14600, married_joint |-> 29200,
     married_separate |-> 14600, head_household |-> 21900]

\* variant: the lower bound of the bracket is not subtracted
taxable_in_bracket_NoPrevious(taxable_income, previous_bracket, bracket_max) ==
    MinToB(taxable_income, bracket_max, 0)

\* taxable_in_bracket of one pass of the loop
taxable_in_bracket(taxable_income, previous_bracket, bracket_max) ==
    MinToB(taxable_income - previous_bracket, bracket_max, previous_bracket)

\* The loop over the brackets from entry k on: total_tax so far, and
\* previous_bracket (finite while the loop runs: only the last bound is inf).
RECURSIVE bracket_loop(_, _, _, _, _)
bracket_loop(table, k, taxable_income, previous_bracket, total_tax) ==
    IF k > Len(table)
    THEN total_tax
    ELSE LET bracket_max == table[k][1]
             rate == table[k][2]
         IN  IF taxable_income > previous_bracket
             THEN LET tax_in_bracket ==
                          taxable_in_bracket(taxable_income, previous_bracket,
                                             bracket_max) * rate
                  IN  IF LeB(taxable_income, bracket_max)
                      THEN total_tax + tax_in_bracket
                      ELSE bracket_loop(table, k + 1, taxable_income,
                                        bracket_max.v, total_tax + tax_in_bracket)
             ELSE bracket_loop(table, k + 1, taxable_income, bracket_max.v,
                               total_tax)

\* variant: the division is not guarded for an income of 0
effective_tax_rate_Unguarded(tax, inc) ==
    IF inc # 0 THEN [n |-> tax, d |-> inc * Unit] ELSE [n |-> 0, d |-> 0]

\* (total_tax + fica_tax) / income if income > 0 else 0
effective_tax_rate(tax, inc) ==
    IF inc > 0 THEN [n |-> tax, d |-> inc * Unit] ELSE [n |-> 0, d |-> 1]

\* variant: FICA added instead of subtracted
post_tax_income_FicaAdded(inc, total_tax, fica_tax) ==
    inc * Unit - total_tax + fica_tax

\* income - total_tax - fica_tax
post_tax_income(inc, total_tax, fica_tax) ==
    inc * Unit - total_tax - fica_tax

\* value is the post-tax income in 1/Unit dollar, rate the effective rate as
\* the fraction n/d (d = 0 stands for a division by zero)
calculate_post_tax_income(inc, st) ==
    IF st \notin DOMAIN brackets
    THEN Raise("InvalidFilingStatus", NoWarnings)
    ELSE LET taxable_income == Max(0, inc - std_deduction[st])
             total_tax == bracket_loop(brackets[st], 1, taxable_income, 0, 0)
             fica == calculate_fica(inc, st)
         IN  IF fica.kind # "ok"
             THEN fica
             ELSE LET r == effective_tax_rate(total_tax + fica.value, inc)
                  IN  IF r.d = 0
                      THEN Raise("ZeroDivisionError", NoWarnings)
                      ELSE Ok(post_tax_income(inc, total_tax, fica.value), r,
                              NoWarnings)

cg_brackets ==
    [single |->
        << <<Fin(44625), Rate(0, 100)>>, <<Fin(492300), Rate(15, 100)>>,
           <<Inf, Rate(20, 100)>> >>,
     married_joint |->
        << <<Fin(89250), Rate(0, 100)>>, <<Fin(553850), Rate(15, 100)>>,
           <<Inf, Rate(20, 100)>> >>,
     married_separate |->
        << <<Fin(44625), Rate(0, 100)>>, <<Fin(276900), Rate(15, 100)>>,
           <<Inf, Rate(20, 100)>> >>,
     head_household |->
        << <<Fin(59750), Rate(0, 100)>>, <<Fin(523050), Rate(15, 100)>>,
           <<Inf, Rate(20, 100)>> >>]

\* variant: < instead of <=
cg_tier_applies_Strict(total, threshold) ==
    IF threshold.inf THEN TRUE ELSE total < threshold.v

\* regular_income + gain_amount <= threshold
cg_tier_applies(total, threshold) == LeB(total, threshold)

\* the loop over the tiers from entry k on, with its early return, and the
\* statement after the loop
RECURSIVE cg_loop(_, _, _, _)
cg_loop(table, k, gain_amount, regular_income) ==
    IF k > Len(table)
    THEN gain_amount * table[Len(table)][2]
    ELSE IF cg_tier_applies(regular_income + gain_amount, table[k][1])
         THEN gain_amount * table[k][2]
         ELSE cg_loop(table, k + 1, gain_amount, regular_income)

calculate_capital_gains_tax(gain_amount, regular_income, st) ==
    IF st \notin DOMAIN cg_brackets
    THEN Raise("InvalidFilingStatus", NoWarnings)
    ELSE Ok(cg_loop(cg_brackets[st], 1, gain_amount, regular_income), Zero,
            NoWarnings)

(***************************************************************************)
(* Principal formulas (retirement_planner.py).                             *)
(***************************************************************************)
\* desired growth rate for nobility wealth, 0.02
NG == R(2, 100)
\* share of the income that has to come from savings, 0.40
SP == R(40, 100)

\* variant: < instead of <=, equal rates pass the guard
rate_ordering_violated_Strict(rate_of_return, rate_of_inflation) ==
    RLt(rate_of_return, rate_of_inflation)

\* rate_of_return <= rate_of_inflation, the guard of the formulas
rate_ordering_violated(rate_of_return, rate_of_inflation) ==
    RLe(rate_of_return, rate_of_inflation)

\* a / b as Python evaluates it: ZeroDivisionError for b = 0
Quotient(a, b, w) ==
    IF b.n = 0 THEN Raise("ZeroDivisionError", w) ELSE Ok(RDiv(a, b), Zero, w)

\* variant: the ratio of the growth factors inverted
comfy_retirement_InvertedRatio(desired_income, retirement_duration, rate_of_return, rate_of_inflation) ==
    IF rate_ordering_violated(rate_of_return, rate_of_inflation)
    THEN Raise("RateOrderingError", NoWarnings)
    ELSE LET ratio == Quotient(RAdd(One, rate_of_return),
                               RAdd(One, rate_of_inflation), NoWarnings)
         IN  IF ratio.kind # "ok"
             THEN ratio
             ELSE LET factor ==
                          Quotient(RSub(One, RPow(ratio.value, retirement_duration)),
                                   RSub(rate_of_return, rate_of_inflation),
                                   NoWarnings)
                  IN  IF factor.kind # "ok"
                      THEN factor
                      ELSE Ok(RMul(desired_income, factor.value), Zero, NoWarnings)

comfy_retirement(desired_income, retirement_duration, rate_of_return, rate_of_inflation) ==
    IF rate_ordering_violated(rate_of_return, rate_of_inflation)
    THEN Raise("RateOrderingError", NoWarnings)
    ELSE LET ratio == Quotient(RAdd(One, rate_of_inflation),
                               RAdd(One, rate_of_return), NoWarnings)
         IN  IF ratio.kind # "ok"
             THEN ratio
             ELSE LET factor ==
                          Quotient(RSub(One, RPow(ratio.value, retirement_duration)),
                                   RSub(rate_of_return, rate_of_inflation),
                                   NoWarnings)
                  IN  IF factor.kind # "ok"
                      THEN factor
                      ELSE Ok(RMul(desired_income, factor.value), Zero, NoWarnings)

\* variant: the whole income instead of the share SP of it
supplemented_retirement_Unscaled(desired_income, retirement_duration, rate_of_return, rate_of_inflation) ==
    comfy_retirement(desired_income, retirement_duration, rate_of_return,
                     rate_of_inflation)

supplemented_retirement(desired_income, retirement_duration, rate_of_return, rate_of_inflation) ==
    LET supplemental_income == RMul(desired_income, SP)
    IN  comfy_retirement(supplemental_income, retirement_duration,
                         rate_of_return, rate_of_inflation)

\* variant: <= 0.01 instead of < 0.01
near_equal_rates_Inclusive(rate_of_return, rate_of_inflation) ==
    RLe(RSub(rate_of_return, rate_of_inflation), R(1, 100))

\* rate_of_return - rate_of_inflation < 0.01, the test of the advisory
near_equal_rates(rate_of_return, rate_of_inflation) ==
    RLt(RSub(rate_of_return, rate_of_inflation), R(1, 100))

generational_wealth(desired_income, retirement_duration, rate_of_return, rate_of_inflation) ==
    IF rate_ordering_violated(rate_of_return, rate_of_inflation)
    THEN Raise("RateOrderingError", NoWarnings)
    ELSE LET w == IF near_equal_rates(rate_of_return, rate_of_inflation)
                  THEN {"precision"}
                  ELSE NoWarnings
         IN  Quotient(desired_income, RSub(rate_of_return, rate_of_inflation), w)

\* variant: < instead of <=
nobility_falls_back_Strict(rate_of_return, rate_of_inflation) ==
    RLt(rate_of_return, RAdd(rate_of_inflation, NG))

\* rate_of_return <= rate_of_inflation + NG, the test of the fallback
nobility_falls_back(rate_of_return, rate_of_inflation) ==
    RLe(rate_of_return, RAdd(rate_of_inflation, NG))

\* warnings.warn comes before the call of generational_wealth, so the
\* advisory is emitted also when that call raises
nobility_wealth(desired_income, retirement_duration, rate_of_return, rate_of_inflation) ==
    IF nobility_falls_back(rate_of_return, rate_of_inflation)
    THEN LET g == generational_wealth(desired_income, retirement_duration,
                                      rate_of_return, rate_of_inflation)
         IN  [g EXCEPT !.warnings = @ \cup {"fallback"}]
    ELSE Quotient(desired_income,
                  RSub(RSub(rate_of_return, rate_of_inflation), NG), NoWarnings)

(***************************************************************************)
(* Contribution sizing (finlib.py).                                        *)
(***************************************************************************)
\* C * ((1 + R)**T - 1) / R
constant_contribution(rate, years, contribution) ==
    Quotient(RMul(contribution, RSub(RPow(RAdd(One, rate), years), One)), rate,
             NoWarnings)

\* variant: < instead of <=, a rate of 0 passes the guard
sizing_rate_invalid_Strict(rate_of_return) == RLt(rate_of_return, Zero)

\* rate_of_return <= 0
sizing_rate_invalid(rate_of_return) == RLe(rate_of_return, Zero)

\* variant: the growth factor is not reduced by 1
annuity_denominator_NoMinusOne(rate_of_return, investment_duration) ==
    RPow(RAdd(One, rate_of_return), investment_duration)

\* (1 + rate_of_return)**investment_duration - 1
annuity_denominator(rate_of_return, investment_duration) ==
    RSub(RPow(RAdd(One, rate_of_return), investment_duration), One)

required_constant_contribution(target_amount, rate_of_return, investment_duration) ==
    IF sizing_rate_invalid(rate_of_return)
    THEN Raise("InvalidRate", NoWarnings)
    ELSE Quotient(RMul(target_amount, rate_of_return),
                  annuity_denominator(rate_of_return, investment_duration),
                  NoWarnings)

(***************************************************************************)
(* Account analyzers and the orchestrator (retirement_planner.py).         *)
(*                                                                         *)
(* Amounts are rationals counted in MoneyUnit dollars; the formulas are    *)
(* the source's, and the tax engine is called with the amount in dollars.  *)
(* An analyzer returns its dictionary as a function from field names to    *)
(* amounts and flags.                                                      *)
(***************************************************************************)
MoneyUnit == 5000
\* the amount in dollars, for an amount of whole dollars
Dollars(amount) == amount.n * (MoneyUnit \div amount.d)

\* variant: prices assumed to fall
I_Deflation == R(0 - 10, 100)

\* I = 0.03, the inflation the orchestrator assumes
I == R(3, 100)
brokerage_withdrawal_tax_rate == R(15, 100)

Goals == {"Supplemented", "Sustainable", "Generational", "Nobility"}

\* variant: the entries of Supplemented and Sustainable exchanged
calculate_principal_by_goal_Exchanged(future_income, retirement_time, rate_of_return, inflation_rate, goal) ==
    CASE goal = "Sustainable" ->
             supplemented_retirement(future_income, retirement_time,
                                     rate_of_return, inflation_rate)
      [] goal = "Supplemented" ->
             comfy_retirement(future_income, retirement_time, rate_of_return,
                              inflation_rate)
      [] goal = "Generational" ->
             generational_wealth(future_income, retirement_time, rate_of_return,
                                 inflation_rate)
      [] goal = "Nobility" ->
             nobility_wealth(future_income, retirement_time, rate_of_return,
                             inflation_rate)
      [] OTHER -> Raise("KeyError", NoWarnings)

\* func_map[goal](future_income, retirement_time, rate_of_return, inflation_rate)
calculate_principal_by_goal(future_income, retirement_time, rate_of_return, inflation_rate, goal) ==
    CASE goal = "Supplemented" ->
             supplemented_retirement(future_income, retirement_time,
                                     rate_of_return, inflation_rate)
      [] goal = "Sustainable" ->
             comfy_retirement(future_income, retirement_time, rate_of_return,
                              inflation_rate)
      [] goal = "Generational" ->
             generational_wealth(future_income, retirement_time, rate_of_return,
                                 inflation_rate)
      [] goal = "Nobility" ->
             nobility_wealth(future_income, retirement_time, rate_of_return,
                             inflation_rate)
      [] OTHER -> Raise("KeyError", NoWarnings)

\* the value of an intermediate of the code: "x \in {e}" below binds x to the
\* value of e, computed once, as the assignment x = e of the source does
Only(S) == CHOOSE x \in S : TRUE

\* _, rate = calculate_post_tax_income(amount, filing_status): the effective
\* rate as a rational, or the exception of the call
tax_rate_on(amount, filing_status) ==
    Only({IF t.kind # "ok" THEN t ELSE Ok(R(t.rate.n, t.rate.d), Zero, NoWarnings) :
             t \in {calculate_post_tax_income(Dollars(amount), filing_status)}})

\* variant: the withdrawal is not grossed up for the tax
taxable_withdrawal_NoGrossUp(future_income, withdrawal_tax_rate) ==
    Ok(future_income, Zero, NoWarnings)

\* future_income / (1 - withdrawal_tax_rate)
taxable_withdrawal(future_income, withdrawal_tax_rate) ==
    Quotient(future_income, RSub(One, withdrawal_tax_rate), NoWarnings)

\* variant: a contribution equal to the ceiling is flagged too
limit_met_Inclusive(required_contribution, annual_contribution_limit) ==
    IF RLe(annual_contribution_limit, required_contribution) THEN "Yes" ELSE "No"

\* "Yes" if required_contribution > annual_contribution_limit else "No"
limit_met(required_contribution, annual_contribution_limit) ==
    IF RLt(annual_contribution_limit, required_contribution) THEN "Yes" ELSE "No"

\* variant: the employee pays the whole base contribution
employee_share_Whole(base_contribution, employer_match) ==
    base_contribution

\* base_contribution * (1 - employer_match)
employee_share(base_contribution, employer_match) ==
    RMul(base_contribution, RSub(One, employer_match))

\* employee_contribution * employer_match
employer_share(employee_contribution, employer_match) ==
    RMul(employee_contribution, employer_match)

\* variant: the employer's share left out of the total
total_of_shares_EmployeeOnly(employee_contribution, employer_contribution) ==
    employee_contribution

\* employee_contribution + employer_contribution
total_of_shares(employee_contribution, employer_contribution) ==
    RAdd(employee_contribution, employer_contribution)

\* the call of required_constant_contribution that follows the principal:
\* the advisories of the principal stay emitted when the sizing raises
sized(principal, growth_rate, investment_time) ==
    Only({[c EXCEPT !.warnings = principal.warnings] :
             c \in {required_constant_contribution(principal.value, growth_rate,
                                                   investment_time)}})

\* variant: the dictionary without the yearly contribution
brokerage_fields_PrincipalOnly(principal, contribution) ==
    "Principal Required" :> principal

brokerage_fields(principal, contribution) ==
    ("Principal Required" :> principal) @@ ("Yearly Contribution" :> contribution)

\* variant: the growth rate without the drag
brokerage_effective_growth_NoDrag(growth_rate) ==
    growth_rate

\* growth_rate - (growth_rate * brokerage_withdrawal_tax_rate)
brokerage_effective_growth(growth_rate) ==
    RSub(growth_rate, RMul(growth_rate, brokerage_withdrawal_tax_rate))

\* the statements after the principal is known
brokerage_sizing(principal, growth_rate, investment_time) ==
    IF principal.kind # "ok"
    THEN principal
    ELSE Only({IF contribution.kind # "ok"
               THEN contribution
               ELSE Ok(brokerage_fields(principal.value, contribution.value),
                       Zero, principal.warnings) :
                  contribution \in {sized(principal, growth_rate, investment_time)}})

analyze_brokerage_account(future_income, growth_rate, inflation_rate, investment_time, retirement_time, goal) ==
    Only({brokerage_sizing(principal, growth_rate, investment_time) :
             principal \in
                 {calculate_principal_by_goal(
                      future_income, retirement_time,
                      brokerage_effective_growth(growth_rate), inflation_rate,
                      goal)}})

\* the principal on the future income grossed up for the tax on it
grossed_up_principal(withdrawal_tax_rate, future_income, growth_rate, inflation_rate, retirement_time, goal) ==
    IF withdrawal_tax_rate.kind # "ok"
    THEN withdrawal_tax_rate
    ELSE Only({IF gross.kind # "ok"
               THEN gross
               ELSE calculate_principal_by_goal(gross.value, retirement_time,
                                                growth_rate, inflation_rate, goal) :
                  gross \in {taxable_withdrawal(future_income,
                                                withdrawal_tax_rate.value)}})

\* the principal of the two Traditional analyzers
traditional_principal(future_income, growth_rate, inflation_rate, retirement_time, goal, filing_status) ==
    Only({grossed_up_principal(withdrawal_tax_rate, future_income, growth_rate,
                               inflation_rate, retirement_time, goal) :
             withdrawal_tax_rate \in {tax_rate_on(future_income, filing_status)}})

ira_fields(principal, required_contribution, annual_contribution_limit) ==
    ("Principal Required" :> principal)
        @@ ("Yearly Contribution" :> required_contribution)
        @@ ("Contribution Limit Met?" :>
                limit_met(required_contribution, annual_contribution_limit))

\* the statements of the two IRA analyzers after the principal is known
ira_sizing(principal, growth_rate, investment_time, annual_contribution_limit) ==
    IF principal.kind # "ok"
    THEN principal
    ELSE Only({IF required_contribution.kind # "ok"
               THEN required_contribution
               ELSE Ok(ira_fields(principal.value, required_contribution.value,
                                  annual_contribution_limit),
                       Zero, principal.warnings) :
                  required_contribution \in
                      {sized(principal, growth_rate, investment_time)}})

analyze_traditional_ira(future_income, growth_rate, inflation_rate, investment_time, retirement_time, goal, filing_status, annual_contribution_limit) ==
    Only({ira_sizing(principal, growth_rate, investment_time,
                     annual_contribution_limit) :
             principal \in
                 {traditional_principal(future_income, growth_rate,
                                        inflation_rate, retirement_time, goal,
                                        filing_status)}})

analyze_roth_ira(future_income, growth_rate, inflation_rate, investment_time, retirement_time, goal, annual_contribution_limit) ==
    Only({ira_sizing(principal, growth_rate, investment_time,
                     annual_contribution_limit) :
             principal \in
                 {calculate_principal_by_goal(future_income, retirement_time,
                                              growth_rate, inflation_rate, goal)}})

traditional_401k_fields(principal, base_contribution, employee_contribution, employer_contribution, annual_contribution_limit) ==
    ("Principal Required" :> principal)
        @@ ("Yearly Contribution" :> employee_contribution)
        @@ ("Employee Contribution" :> employee_contribution)
        @@ ("Employer Contribution" :> employer_contribution)
        @@ ("Total Contribution" :>
                total_of_shares(employee_contribution, employer_contribution))
        @@ ("Contribution Limit Met?" :>
                limit_met(base_contribution, annual_contribution_limit))

\* the statements after the principal is known
traditional_401k_sizing(principal, growth_rate, investment_time, annual_contribution_limit, employer_match) ==
    IF principal.kind # "ok"
    THEN principal
    ELSE Only({IF base_contribution.kind # "ok"
               THEN base_contribution
               ELSE Only({Ok(traditional_401k_fields(
                                 principal.value, base_contribution.value,
                                 employee_contribution,
                                 employer_share(employee_contribution,
                                                employer_match),
                                 annual_contribution_limit),
                             Zero, principal.warnings) :
                             employee_contribution \in
                                 {employee_share(base_contribution.value,
                                                 employer_match)}}) :
                  base_contribution \in
                      {sized(principal, growth_rate, investment_time)}})

analyze_traditional_401k(future_income, growth_rate, inflation_rate, investment_time, retirement_time, goal, filing_status, annual_contribution_limit, employer_match) ==
    Only({traditional_401k_sizing(principal, growth_rate, investment_time,
                                  annual_contribution_limit, employer_match) :
             principal \in
                 {traditional_principal(future_income, growth_rate,
                                        inflation_rate, retirement_time, goal,
                                        filing_status)}})

roth_401k_fields(principal, base_contribution, employee_contribution, employer_contribution, effective_contribution, annual_contribution_limit) ==
    ("Principal Required" :> principal)
        @@ ("Yearly Contribution" :> employee_contribution)
        @@ ("Employee Contribution After-Tax" :> employee_contribution)
        @@ ("Employer Contribution Traditional" :> employer_contribution)
        @@ ("Total Contribution" :>
                total_of_shares(employee_contribution, employer_contribution))
        @@ ("Effective Pre-Tax Cost" :> effective_contribution)
        @@ ("Contribution Limit Met?" :>
                limit_met(base_contribution, annual_contribution_limit))

\* the tax on the current income and the cost of the employee's share
roth_401k_cost(principal, base_contribution, employee_contribution, employer_match, annual_contribution_limit, tax_rate) ==
    IF tax_rate.kind # "ok"
    THEN [tax_rate EXCEPT !.warnings = principal.warnings]
    ELSE Only({IF effective_contribution.kind # "ok"
               THEN effective_contribution
               ELSE Ok(roth_401k_fields(
                           principal.value, base_contribution.value,
                           employee_contribution,
                           employer_share(employee_contribution, employer_match),
                           effective_contribution.value,
                           annual_contribution_limit),
                       Zero, principal.warnings) :
                  effective_contribution \in
                      {Quotient(employee_contribution,
                                RSub(One, tax_rate.value), principal.warnings)}})

\* the statements after the principal is known
roth_401k_sizing(principal, growth_rate, investment_time, filing_status, annual_contribution_limit, employer_match, current_income) ==
    IF principal.kind # "ok"
    THEN principal
    ELSE Only({IF base_contribution.kind # "ok"
               THEN base_contribution
               ELSE Only({roth_401k_cost(principal, base_contribution,
                                         employee_contribution, employer_match,
                                         annual_contribution_limit, tax_rate) :
                             employee_contribution \in
                                 {employee_share(base_contribution.value,
                                                 employer_match)},
                             tax_rate \in
                                 {tax_rate_on(current_income, filing_status)}}) :
                  base_contribution \in
                      {sized(principal, growth_rate, investment_time)}})

analyze_roth_401k(future_income, growth_rate, inflation_rate, investment_time, retirement_time, goal, filing_status, annual_contribution_limit, employer_match, current_income) ==
    Only({roth_401k_sizing(principal, growth_rate, investment_time,
                           filing_status, annual_contribution_limit,
                           employer_match, current_income) :
             principal \in
                 {calculate_principal_by_goal(future_income, retirement_time,
                                              growth_rate, inflation_rate, goal)}})

\* variant: the desired income is not inflated to the retirement date
inflated_NotInflated(quality_of_life, investment_time) ==
    quality_of_life

\* quality_of_life * (1 + I)**investment_time
inflated(quality_of_life, investment_time) ==
    RMul(quality_of_life, RPow(RAdd(One, I), investment_time))

Accounts ==
    <<"Brokerage Account", "Traditional IRA", "Roth IRA", "Traditional 401k",
      "Roth 401k">>

\* the k-th value of the dictionary literal, for the arguments a of the call
analysis(k, a) ==
    CASE k = 1 ->
             analyze_brokerage_account(a.future_income, a.growth_rate, I,
                                       a.investment_time, a.retirement_time,
                                       a.goal)
      [] k = 2 ->
             analyze_traditional_ira(a.future_income, a.growth_rate, I,
                                     a.investment_time, a.retirement_time,
                                     a.goal, a.filing_status,
                                     a.annual_contribution_limit_ira)
      [] k = 3 ->
             analyze_roth_ira(a.future_income, a.growth_rate, I,
                              a.investment_time, a.retirement_time, a.goal,
                              a.annual_contribution_limit_ira)
      [] k = 4 ->
             analyze_traditional_401k(a.future_income, a.growth_rate, I,
                                      a.investment_time, a.retirement_time,
                                      a.goal, a.filing_status,
                                      a.annual_contribution_limit_401k,
                                      a.employer_match)
      [] k = 5 ->
             analyze_roth_401k(a.future_income, a.growth_rate, I,
                               a.investment_time, a.retirement_time, a.goal,
                               a.filing_status,
                               a.annual_contribution_limit_401k,
                               a.employer_match, a.quality_of_life)

\* variant: only an invalid filing status ends the call
entry_failed_OnlyStatus(entry) ==
    entry.kind = "InvalidFilingStatus"

\* an exception of an analyzer ends the call
entry_failed(entry) ==
    entry.kind # "ok"

\* the dictionary literal is evaluated entry by entry: the first analyzer
\* that raises ends the call, after the advisories emitted so far
RECURSIVE results_from(_, _, _, _)
results_from(k, a, results, emitted) ==
    IF k > Len(Accounts)
    THEN Ok(results, Zero, emitted)
    ELSE Only({IF entry_failed(entry)
               THEN [entry EXCEPT !.warnings = emitted \cup entry.warnings]
               ELSE results_from(k + 1, a,
                                 results @@ (Accounts[k] :> entry.value),
                                 emitted \cup entry.warnings) :
                  entry \in {analysis(k, a)}})

analyze_retirement_options(quality_of_life, growth_rate, investment_time, retirement_time, goal, filing_status, employer_match, annual_contribution_limit_401k, annual_contribution_limit_ira) ==
    results_from(1,
                 [future_income |-> inflated(quality_of_life, investment_time),
                  quality_of_life |-> quality_of_life,
                  growth_rate |-> growth_rate,
                  investment_time |-> investment_time,
                  retirement_time |-> retirement_time,
                  goal |-> goal,
                  filing_status |-> filing_status,
                  employer_match |-> employer_match,
                  annual_contribution_limit_401k |-> annual_contribution_limit_401k,
                  annual_contribution_limit_ira |-> annual_contribution_limit_ira],
                 <<>>, NoWarnings)

(***************************************************************************)
(* The single-file copy of the engine (financial_planning.py).  It defines *)
(* the constants, the tax engine, the principal formulas, contribution     *)
(* sizing, the analyzers and the orchestrator itself instead of importing  *)
(* them; each definition below is the one of that file, under the name it  *)
(* has there prefixed with fp_.                                            *)
(***************************************************************************)
fp_social_security_cap == 168600

fp_addl_medicare_threshold ==
    [single |-> 200000, married_joint |-> 250000,
     married_separate |-> 125000, head_household |-> 200000]

fp_calculate_fica(inc, st) ==
    LET ss_tax == Min(inc, fp_social_security_cap) * Rate(62, 1000)
        medicare_tax == inc * Rate(145, 10000)
    IN  IF st \notin DOMAIN fp_addl_medicare_threshold
        THEN Raise("KeyError", NoWarnings)
        ELSE LET addl_medicare ==
                     IF inc > fp_addl_medicare_threshold[st]
                     THEN (inc - fp_addl_medicare_threshold[st]) * Rate(9, 1000)
                     ELSE 0
             IN  Ok(ss_tax + medicare_tax + addl_medicare, Zero, NoWarnings)

fp_brackets ==
    [single |->
        << <<Fin(11600), Rate(10, 100)>>, <<Fin(47150), Rate(12, 100)>>,
           <<Fin(100525), Rate(22, 100)>>, <<Fin(191950), Rate(24, 100)>>,
           <<Fin(243725), Rate(32, 100)>>, <<Fin(609350), Rate(35, 100)>>,
           <<Inf, Rate(37, 100)>> >>,
     married_joint |->
        << <<Fin(23200), Rate(10, 100)>>, <<Fin(94300), Rate(12, 100)>>,
           <<Fin(201050), Rate(22, 100)>>, <<Fin(383900), Rate(24, 100)>>,
           <<Fin(487450), Rate(32, 100)>>, <<Fin(731200), Rate(35, 100)>>,
           <<Inf, Rate(37, 100)>> >>,
     married_separate |->
        << <<Fin(11600), Rate(10, 100)>>, <<Fin(47150), Rate(12, 100)>>,
           <<Fin(100525), Rate(22, 100)>>, <<Fin(191950), Rate(24, 100)>>,
           <<Fin(243725), Rate(32, 100)>>, <<Fin(365600), Rate(35, 100)>>,
           <<Inf, Rate(37, 100)>> >>,
     head_household |->
        << <<Fin(16550), Rate(10, 100)>>, <<Fin(63100), Rate(12, 100)>>,
           <<Fin(100500), Rate(22, 100)>>, <<Fin(191950), Rate(24, 100)>>,
           <<Fin(243700), Rate(32, 100)>>, <<Fin(609350), Rate(35, 100)>>,
           <<Inf, Rate(37, 100)>> >>]

fp_std_deduction ==
    [single |-> 14600, married_joint |-> 29200,
     married_separate |-> 14600, head_household |-> 21900]

fp_taxable_in_bracket(taxable_income, previous_bracket, bracket_max) ==
    MinToB(taxable_income - previous_bracket, bracket_max, previous_bracket)

RECURSIVE fp_bracket_loop(_, _, _, _, _)
fp_bracket_loop(table, k, taxable_income, previous_bracket, total_tax) ==
    IF k > Len(table)
    THEN total_tax
    ELSE LET bracket_max == table[k][1]
             rate == table[k][2]
         IN  IF taxable_income > previous_bracket
             THEN LET tax_in_bracket ==
                          fp_taxable_in_bracket(taxable_income, previous_bracket,
                                             bracket_max) * rate
                  IN  IF LeB(taxable_income, bracket_max)
                      THEN total_tax + tax_in_bracket
                      ELSE fp_bracket_loop(table, k + 1, taxable_income,
                                        bracket_max.v, total_tax + tax_in_bracket)
             ELSE fp_bracket_loop(table, k + 1, taxable_income, bracket_max.v,
                               total_tax)

fp_effective_tax_rate(tax, inc) ==
    IF inc > 0 THEN [n |-> tax, d |-> inc * Unit] ELSE [n |-> 0, d |-> 1]

fp_calculate_post_tax_income(inc, st) ==
    IF st \notin DOMAIN fp_brackets
    THEN Raise("InvalidFilingStatus", NoWarnings)
    ELSE LET taxable_income == Max(0, inc - fp_std_deduction[st])
             total_tax == fp_bracket_loop(fp_brackets[st], 1, taxable_income, 0, 0)
             fica == fp_calculate_fica(inc, st)
         IN  IF fica.kind # "ok"
             THEN fica
             ELSE LET r == fp_effective_tax_rate(total_tax + fica.value, inc)
                  IN  IF r.d = 0
                      THEN Raise("ZeroDivisionError", NoWarnings)
                      ELSE Ok(inc * Unit - total_tax - fica.value, r,
                              NoWarnings)

fp_NG == R(2, 100)

fp_SP == R(40, 100)

fp_rate_ordering_violated(rate_of_return, rate_of_inflation) ==
    RLe(rate_of_return, rate_of_inflation)

fp_comfy_retirement(desired_income, retirement_duration, rate_of_return, rate_of_inflation) ==
    IF fp_rate_ordering_violated(rate_of_return, rate_of_inflation)
    THEN Raise("RateOrderingError", NoWarnings)
    ELSE LET ratio == Quotient(RAdd(One, rate_of_inflation),
                               RAdd(One, rate_of_return), NoWarnings)
         IN  IF ratio.kind # "ok"
             THEN ratio
             ELSE LET factor ==
                          Quotient(RSub(One, RPow(ratio.value, retirement_duration)),
                                   RSub(rate_of_return, rate_of_inflation),
                                   NoWarnings)
                  IN  IF factor.kind # "ok"
                      THEN factor
                      ELSE Ok(RMul(desired_income, factor.value), Zero, NoWarnings)

fp_supplemented_retirement(desired_income, retirement_duration, rate_of_return, rate_of_inflation) ==
    LET supplemental_income == RMul(desired_income, fp_SP)
    IN  fp_comfy_retirement(supplemental_income, retirement_duration,
                         rate_of_return, rate_of_inflation)

fp_near_equal_rates(rate_of_return, rate_of_inflation) ==
    RLt(RSub(rate_of_return, rate_of_inflation), R(1, 100))

fp_generational_wealth(desired_income, retirement_duration, rate_of_return, rate_of_inflation) ==
    IF fp_rate_ordering_violated(rate_of_return, rate_of_inflation)
    THEN Raise("RateOrderingError", NoWarnings)
    ELSE LET w == IF fp_near_equal_rates(rate_of_return, rate_of_inflation)
                  THEN {"precision"}
                  ELSE NoWarnings
         IN  Quotient(desired_income, RSub(rate_of_return, rate_of_inflation), w)

fp_nobility_falls_back(rate_of_return, rate_of_inflation) ==
    RLe(rate_of_return, RAdd(rate_of_inflation, fp_NG))

fp_nobility_wealth(desired_income, retirement_duration, rate_of_return, rate_of_inflation) ==
    IF fp_nobility_falls_back(rate_of_return, rate_of_inflation)
    THEN LET g == fp_generational_wealth(desired_income, retirement_duration,
                                      rate_of_return, rate_of_inflation)
         IN  [g EXCEPT !.warnings = @ \cup {"fallback"}]
    ELSE Quotient(desired_income,
                  RSub(RSub(rate_of_return, rate_of_inflation), fp_NG), NoWarnings)

fp_required_constant_contribution(target_amount, rate_of_return, investment_duration) ==
    IF RLe(rate_of_return, Zero)
    THEN Raise("InvalidRate", NoWarnings)
    ELSE Quotient(RMul(target_amount, rate_of_return),
                  RSub(RPow(RAdd(One, rate_of_return), investment_duration), One),
                  NoWarnings)

fp_I == R(3, 100)

\* Variant: the capital gains rate T of line 21 in place of the local 0.15.
fp_brokerage_withdrawal_tax_rate_T == R(20, 100)

fp_brokerage_withdrawal_tax_rate == R(15, 100)

fp_calculate_principal_by_goal(future_income, retirement_time, rate_of_return, inflation_rate, goal) ==
    CASE goal = "Supplemented" ->
             fp_supplemented_retirement(future_income, retirement_time,
                                     rate_of_return, inflation_rate)
      [] goal = "Sustainable" ->
             fp_comfy_retirement(future_income, retirement_time, rate_of_return,
                              inflation_rate)
      [] goal = "Generational" ->
             fp_generational_wealth(future_income, retirement_time, rate_of_return,
                                 inflation_rate)
      [] goal = "Nobility" ->
             fp_nobility_wealth(future_income, retirement_time, rate_of_return,
                             inflation_rate)
      [] OTHER -> Raise("KeyError", NoWarnings)

fp_tax_rate_on(amount, filing_status) ==
    Only({IF t.kind # "ok" THEN t ELSE Ok(R(t.rate.n, t.rate.d), Zero, NoWarnings) :
             t \in {fp_calculate_post_tax_income(Dollars(amount), filing_status)}})

fp_taxable_withdrawal(future_income, withdrawal_tax_rate) ==
    Quotient(future_income, RSub(One, withdrawal_tax_rate), NoWarnings)

fp_limit_met(required_contribution, annual_contribution_limit) ==
    IF RLt(annual_contribution_limit, required_contribution) THEN "Yes" ELSE "No"

fp_employee_share(base_contribution, employer_match) ==
    RMul(base_contribution, RSub(One, employer_match))

fp_employer_share(employee_contribution, employer_match) ==
    RMul(employee_contribution, employer_match)

fp_total_of_shares(employee_contribution, employer_contribution) ==
    RAdd(employee_contribution, employer_contribution)

fp_sized(principal, growth_rate, investment_time) ==
    Only({[c EXCEPT !.warnings = principal.warnings] :
             c \in {fp_required_constant_contribution(principal.value, growth_rate,
                                                   investment_time)}})

fp_brokerage_fields(principal, contribution) ==
    ("Principal Required" :> principal) @@ ("Yearly Contribution" :> contribution)

fp_brokerage_effective_growth(growth_rate) ==
    RSub(growth_rate, RMul(growth_rate, fp_brokerage_withdrawal_tax_rate))

fp_brokerage_sizing(principal, growth_rate, investment_time) ==
    IF principal.kind # "ok"
    THEN principal
    ELSE Only({IF contribution.kind # "ok"
               THEN contribution
               ELSE Ok(fp_brokerage_fields(principal.value, contribution.value),
                       Zero, principal.warnings) :
                  contribution \in {fp_sized(principal, growth_rate, investment_time)}})

fp_analyze_brokerage_account(future_income, growth_rate, inflation_rate, investment_time, retirement_time, goal) ==
    Only({fp_brokerage_sizing(principal, growth_rate, investment_time) :
             principal \in
                 {fp_calculate_principal_by_goal(
                      future_income, retirement_time,
                      fp_brokerage_effective_growth(growth_rate), inflation_rate,
                      goal)}})

fp_grossed_up_principal(withdrawal_tax_rate, future_income, growth_rate, inflation_rate, retirement_time, goal) ==
    IF withdrawal_tax_rate.kind # "ok"
    THEN withdrawal_tax_rate
    ELSE Only({IF gross.kind # "ok"
               THEN gross
               ELSE fp_calculate_principal_by_goal(gross.value, retirement_time,
                                                growth_rate, inflation_rate, goal) :
                  gross \in {fp_taxable_withdrawal(future_income,
                                                withdrawal_tax_rate.value)}})

fp_traditional_principal(future_income, growth_rate, inflation_rate, retirement_time, goal, filing_status) ==
    Only({fp_grossed_up_principal(withdrawal_tax_rate, future_income, growth_rate,
                               inflation_rate, retirement_time, goal) :
             withdrawal_tax_rate \in {fp_tax_rate_on(future_income, filing_status)}})

fp_ira_fields(principal, required_contribution, annual_contribution_limit) ==
    ("Principal Required" :> principal)
        @@ ("Yearly Contribution" :> required_contribution)
        @@ ("Contribution Limit Met?" :>
                fp_limit_met(required_contribution, annual_contribution_limit))

fp_ira_sizing(principal, growth_rate, investment_time, annual_contribution_limit) ==
    IF principal.kind # "ok"
    THEN principal
    ELSE Only({IF required_contribution.kind # "ok"
               THEN required_contribution
               ELSE Ok(fp_ira_fields(principal.value, required_contribution.value,
                                  annual_contribution_limit),
                       Zero, principal.warnings) :
                  required_contribution \in
                      {fp_sized(principal, growth_rate, investment_time)}})

fp_analyze_traditional_ira(future_income, growth_rate, inflation_rate, investment_time, retirement_time, goal, filing_status, annual_contribution_limit) ==
    Only({fp_ira_sizing(principal, growth_rate, investment_time,
                     annual_contribution_limit) :
             principal \in
                 {fp_traditional_principal(future_income, growth_rate,
                                        inflation_rate, retirement_time, goal,
                                        filing_status)}})

fp_analyze_roth_ira(future_income, growth_rate, inflation_rate, investment_time, retirement_time, goal, annual_contribution_limit) ==
    Only({fp_ira_sizing(principal, growth_rate, investment_time,
                     annual_contribution_limit) :
             principal \in
                 {fp_calculate_principal_by_goal(future_income, retirement_time,
                                              growth_rate, inflation_rate, goal)}})

fp_traditional_401k_fields(principal, base_contribution, employee_contribution, employer_contribution, annual_contribution_limit) ==
    ("Principal Required" :> principal)
        @@ ("Yearly Contribution" :> employee_contribution)
        @@ ("Employee Contribution" :> employee_contribution)
        @@ ("Employer Contribution" :> employer_contribution)
        @@ ("Total Contribution" :>
                fp_total_of_shares(employee_contribution, employer_contribution))
        @@ ("Contribution Limit Met?" :>
                fp_limit_met(base_contribution, annual_contribution_limit))

fp_traditional_401k_sizing(principal, growth_rate, investment_time, annual_contribution_limit, employer_match) ==
    IF principal.kind # "ok"
    THEN principal
    ELSE Only({IF base_contribution.kind # "ok"
               THEN base_contribution
               ELSE Only({Ok(fp_traditional_401k_fields(
                                 principal.value, base_contribution.value,
                                 employee_contribution,
                                 fp_employer_share(employee_contribution,
                                                employer_match),
                                 annual_contribution_limit),
                             Zero, principal.warnings) :
                             employee_contribution \in
                                 {fp_employee_share(base_contribution.value,
                                                 employer_match)}}) :
                  base_contribution \in
                      {fp_sized(principal, growth_rate, investment_time)}})

fp_analyze_traditional_401k(future_income, growth_rate, inflation_rate, investment_time, retirement_time, goal, filing_status, annual_contribution_limit, employer_match) ==
    Only({fp_traditional_401k_sizing(principal, growth_rate, investment_time,
                                  annual_contribution_limit, employer_match) :
             principal \in
                 {fp_traditional_principal(future_income, growth_rate,
                                        inflation_rate, retirement_time, goal,
                                        filing_status)}})

fp_roth_401k_fields(principal, base_contribution, employee_contribution, employer_contribution, effective_contribution, annual_contribution_limit) ==
    ("Principal Required" :> principal)
        @@ ("Yearly Contribution" :> employee_contribution)
        @@ ("Employee Contribution After-Tax" :> employee_contribution)
        @@ ("Employer Contribution Traditional" :> employer_contribution)
        @@ ("Total Contribution" :>
                fp_total_of_shares(employee_contribution, employer_contribution))
        @@ ("Effective Pre-Tax Cost" :> effective_contribution)
        @@ ("Contribution Limit Met?" :>
                fp_limit_met(base_contribution, annual_contribution_limit))

fp_roth_401k_cost(principal, base_contribution, employee_contribution, employer_match, annual_contribution_limit, tax_rate) ==
    IF tax_rate.kind # "ok"
    THEN [tax_rate EXCEPT !.warnings = principal.warnings]
    ELSE Only({IF effective_contribution.kind # "ok"
               THEN effective_contribution
               ELSE Ok(fp_roth_401k_fields(
                           principal.value, base_contribution.value,
                           employee_contribution,
                           fp_employer_share(employee_contribution, employer_match),
                           effective_contribution.value,
                           annual_contribution_limit),
                       Zero, principal.warnings) :
                  effective_contribution \in
                      {Quotient(employee_contribution,
                                RSub(One, tax_rate.value), principal.warnings)}})

fp_roth_401k_sizing(principal, growth_rate, investment_time, filing_status, annual_contribution_limit, employer_match, current_income) ==
    IF principal.kind # "ok"
    THEN principal
    ELSE Only({IF base_contribution.kind # "ok"
               THEN base_contribution
               ELSE Only({fp_roth_401k_cost(principal, base_contribution,
                                         employee_contribution, employer_match,
                                         annual_contribution_limit, tax_rate) :
                             employee_contribution \in
                                 {fp_employee_share(base_contribution.value,
                                                 employer_match)},
                             tax_rate \in
                                 {fp_tax_rate_on(current_income, filing_status)}}) :
                  base_contribution \in
                      {fp_sized(principal, growth_rate, investment_time)}})

fp_analyze_roth_401k(future_income, growth_rate, inflation_rate, investment_time, retirement_time, goal, filing_status, annual_contribution_limit, employer_match, current_income) ==
    Only({fp_roth_401k_sizing(principal, growth_rate, investment_time,
                           filing_status, annual_contribution_limit,
                           employer_match, current_income) :
             principal \in
                 {fp_calculate_principal_by_goal(future_income, retirement_time,
                                              growth_rate, inflation_rate, goal)}})

fp_inflated(quality_of_life, investment_time) ==
    RMul(quality_of_life, RPow(RAdd(One, fp_I), investment_time))

fp_Accounts ==
    <<"Brokerage Account", "Traditional IRA", "Roth IRA", "Traditional 401k",
      "Roth 401k">>

fp_analysis(k, a) ==
    CASE k = 1 ->
             fp_analyze_brokerage_account(a.future_income, a.growth_rate, fp_I,
                                       a.investment_time, a.retirement_time,
                                       a.goal)
      [] k = 2 ->
             fp_analyze_traditional_ira(a.future_income, a.growth_rate, fp_I,
                                     a.investment_time, a.retirement_time,
                                     a.goal, a.filing_status,
                                     a.annual_contribution_limit_ira)
      [] k = 3 ->
             fp_analyze_roth_ira(a.future_income, a.growth_rate, fp_I,
                              a.investment_time, a.retirement_time, a.goal,
                              a.annual_contribution_limit_ira)
      [] k = 4 ->
             fp_analyze_traditional_401k(a.future_income, a.growth_rate, fp_I,
                                      a.investment_time, a.retirement_time,
                                      a.goal, a.filing_status,
                                      a.annual_contribution_limit_401k,
                                      a.employer_match)
      [] k = 5 ->
             fp_analyze_roth_401k(a.future_income, a.growth_rate, fp_I,
                               a.investment_time, a.retirement_time, a.goal,
                               a.filing_status,
                               a.annual_contribution_limit_401k,
                               a.employer_match, a.quality_of_life)

fp_entry_failed(entry) ==
    entry.kind # "ok"

RECURSIVE fp_results_from(_, _, _, _)
fp_results_from(k, a, results, emitted) ==
    IF k > Len(fp_Accounts)
    THEN Ok(results, Zero, emitted)
    ELSE Only({IF fp_entry_failed(entry)
               THEN [entry EXCEPT !.warnings = emitted \cup entry.warnings]
               ELSE fp_results_from(k + 1, a,
                                 results @@ (fp_Accounts[k] :> entry.value),
                                 emitted \cup entry.warnings) :
                  entry \in {fp_analysis(k, a)}})

fp_analyze_retirement_options(quality_of_life, growth_rate, investment_time, retirement_time, goal, filing_status, employer_match, annual_contribution_limit_401k, annual_contribution_limit_ira) ==
    fp_results_from(1,
                 [future_income |-> fp_inflated(quality_of_life, investment_time),
                  quality_of_life |-> quality_of_life,
                  growth_rate |-> growth_rate,
                  investment_time |-> investment_time,
                  retirement_time |-> retirement_time,
                  goal |-> goal,
                  filing_status |-> filing_status,
                  employer_match |-> employer_match,
                  annual_contribution_limit_401k |-> annual_contribution_limit_401k,
                  annual_contribution_limit_ira |-> annual_contribution_limit_ira],
                 <<>>, NoWarnings)

(***************************************************************************)
(* Calls of the tax engine.                                                *)
(***************************************************************************)
\* a status that is no key of the tables
UnknownStatus == "qualifying_widow"
Statuses == FilingStatuses \cup {UnknownStatus}

MaxTaxIncome == IncomeStep * MaxIncomeSteps
Gains == {0, 1} \cup {k * GainStep : k \in 1..MaxGainSteps}

\* incomes at, just below and just above every edge of the tables
BracketEdges ==
    {std_deduction[s] + brackets[s][k][1].v + e :
        s \in FilingStatuses, k \in 1..6, e \in -1..1}
DeductionEdges == {std_deduction[s] + e : s \in FilingStatuses, e \in -1..1}
FicaEdges ==
    {social_security_cap + e : e \in -1..1}
        \cup {addl_medicare_threshold[s] + e : s \in FilingStatuses, e \in -1..1}
CgEdges ==
    {cg_brackets[s][k][1].v - g + e :
        s \in FilingStatuses, k \in 1..2, g \in Gains, e \in -1..1}
TaxIncomes ==
    ({k * IncomeStep : k \in 0..MaxIncomeSteps}
        \cup BracketEdges \cup DeductionEdges \cup FicaEdges \cup CgEdges)
    \cap (0..MaxTaxIncome)

InitTax ==
    /\ pc = "ready"
    /\ income \in TaxIncomes
    /\ gain \in Gains
    /\ status \in Statuses
    /\ dur = 0
    /\ ret = Zero
    /\ infl = Zero
    /\ scenario = NoScenario
    /\ result = NoResult

\* the arguments of the call
args == <<income, gain, status, dur, ret, infl, scenario>>

FicaCall ==
    /\ pc = "ready"
    /\ pc' = "calculate_fica"
    /\ result' = calculate_fica(income, status)
    /\ UNCHANGED args

PostTaxCall ==
    /\ pc = "ready"
    /\ pc' = "calculate_post_tax_income"
    /\ result' = calculate_post_tax_income(income, status)
    /\ UNCHANGED args

\* income is the regular income of the call
CapitalGainsCall ==
    /\ pc = "ready"
    /\ pc' = "calculate_capital_gains_tax"
    /\ result' = calculate_capital_gains_tax(gain, income, status)
    /\ UNCHANGED args

NextTax == FicaCall \/ PostTaxCall \/ CapitalGainsCall

SpecTax == InitTax /\ [][NextTax]_vars

(***************************************************************************)
(* Calls of the principal formulas.                                        *)
(***************************************************************************)
\* rates above -100%, in steps of half a percent
Rates == {R(k, 200) : k \in (0 - RateBelow)..MaxRate}

InitPrincipal ==
    /\ pc = "ready"
    /\ income \in 0..MaxDesired
    /\ dur \in 0..MaxDuration
    /\ ret \in Rates
    /\ infl \in Rates
    /\ gain = 0
    /\ status = "single"
    /\ scenario = NoScenario
    /\ result = NoResult

SupplementedCall ==
    /\ pc = "ready"
    /\ pc' = "supplemented_retirement"
    /\ result' = supplemented_retirement(R(income, 1), dur, ret, infl)
    /\ UNCHANGED args

ComfyCall ==
    /\ pc = "ready"
    /\ pc' = "comfy_retirement"
    /\ result' = comfy_retirement(R(income, 1), dur, ret, infl)
    /\ UNCHANGED args

GenerationalCall ==
    /\ pc = "ready"
    /\ pc' = "generational_wealth"
    /\ result' = generational_wealth(R(income, 1), dur, ret, infl)
    /\ UNCHANGED args

NobilityCall ==
    /\ pc = "ready"
    /\ pc' = "nobility_wealth"
    /\ result' = nobility_wealth(R(income, 1), dur, ret, infl)
    /\ UNCHANGED args

\* the dispatcher, called with one of the goals
GoalDispatchCall ==
    /\ pc = "ready"
    /\ pc' = "calculate_principal_by_goal"
    /\ \E goal \in Goals :
           /\ scenario' = [scenario EXCEPT !.goal = goal]
           /\ result' = calculate_principal_by_goal(R(income, 1), dur, ret, infl,
                                                    goal)
    /\ UNCHANGED <<income, gain, status, dur, ret, infl>>

NextPrincipal ==
    SupplementedCall \/ ComfyCall \/ GenerationalCall \/ NobilityCall
        \/ GoalDispatchCall

SpecPrincipal == InitPrincipal /\ [][NextPrincipal]_vars

(***************************************************************************)
(* Calls of contribution sizing: income is the target amount (or the yearly *)
(* contribution of a direct call of constant_contribution), ret the rate,  *)
(* dur the number of years.                                                *)
(***************************************************************************)
InitSizing ==
    /\ pc = "ready"
    /\ income \in 0..MaxTarget
    /\ dur \in 0..MaxYears
    /\ ret \in Rates
    /\ infl = Zero
    /\ gain = 0
    /\ status = "single"
    /\ scenario = NoScenario
    /\ result = NoResult

RequiredContributionCall ==
    /\ pc = "ready"
    /\ pc' = "required_constant_contribution"
    /\ result' = required_constant_contribution(R(income, 1), ret, dur)
    /\ UNCHANGED args

ConstantContributionCall ==
    /\ pc = "ready"
    /\ pc' = "constant_contribution"
    /\ result' = constant_contribution(ret, dur, R(income, 1))
    /\ UNCHANGED args

\* the caller feeds the contribution it was given back into the future-value
\* formula, with the same rate and years
FutureValueOfRequiredCall ==
    /\ pc = "required_constant_contribution"
    /\ result.kind = "ok"
    /\ pc' = "constant_contribution_of_required"
    /\ result' = constant_contribution(ret, dur, result.value)
    /\ UNCHANGED args

NextSizing ==
    RequiredContributionCall \/ ConstantContributionCall
        \/ FutureValueOfRequiredCall

SpecSizing == InitSizing /\ [][NextSizing]_vars

(***************************************************************************)
(* Direct calls of the account analyzers: income is the future income,     *)
(* ret the growth rate, infl the inflation rate, dur the retirement time;  *)
(* scenario holds the investment time, the goal, the employer match, the   *)
(* ceiling (one per call, in both fields) and the current income.          *)
(***************************************************************************)
GrowthRates == {Zero, R(5, 100), R(10, 100), R(25, 100)}
InflationRates == {Zero, I, R(5, 100)}
Matches == {Zero, R(1, 2), One}
\* ceilings of 0, 7000, 8000 and 23500 dollars
Ceilings == {R(k, MoneyUnit) : k \in {0, 7000, 8000, 23500}}
AnalysisStatuses == {"single", "married_joint", UnknownStatus}

InitAnalyzers ==
    /\ pc = "ready"
    /\ income \in 0..MaxFuture
    /\ gain = 0
    /\ status \in AnalysisStatuses
    /\ dur \in 0..MaxRetire
    /\ ret \in GrowthRates
    /\ infl \in InflationRates
    /\ scenario \in
           {s \in [years : 0..MaxInvest, goal : Goals, match : Matches,
                   limit_ira : Ceilings, limit_401k : Ceilings,
                   current : 0..MaxCurrent] :
               s.limit_401k = s.limit_ira}
    /\ result = NoResult

BrokerageCall ==
    /\ pc = "ready"
    /\ pc' = "analyze_brokerage_account"
    /\ result' = analyze_brokerage_account(R(income, 1), ret, infl,
                                            scenario.years, dur, scenario.goal)
    /\ UNCHANGED args

TraditionalIraCall ==
    /\ pc = "ready"
    /\ pc' = "analyze_traditional_ira"
    /\ result' = analyze_traditional_ira(R(income, 1), ret, infl,
                                          scenario.years, dur, scenario.goal,
                                          status, scenario.limit_ira)
    /\ UNCHANGED args

RothIraCall ==
    /\ pc = "ready"
    /\ pc' = "analyze_roth_ira"
    /\ result' = analyze_roth_ira(R(income, 1), ret, infl, scenario.years, dur,
                                   scenario.goal, scenario.limit_ira)
    /\ UNCHANGED args

Traditional401kCall ==
    /\ pc = "ready"
    /\ pc' = "analyze_traditional_401k"
    /\ result' = analyze_traditional_401k(R(income, 1), ret, infl,
                                           scenario.years, dur, scenario.goal,
                                           status, scenario.limit_401k,
                                           scenario.match)
    /\ UNCHANGED args

Roth401kCall ==
    /\ pc = "ready"
    /\ pc' = "analyze_roth_401k"
    /\ result' = analyze_roth_401k(R(income, 1), ret, infl, scenario.years, dur,
                                    scenario.goal, status, scenario.limit_401k,
                                    scenario.match, R(scenario.current, 1))
    /\ UNCHANGED args

NextAnalyzers ==
    BrokerageCall \/ TraditionalIraCall \/ RothIraCall \/ Traditional401kCall
        \/ Roth401kCall

SpecAnalyzers == InitAnalyzers /\ [][NextAnalyzers]_vars

(***************************************************************************)
(* Calls of the orchestrator: income is the quality of life wanted, in     *)
(* today's money, and the current income the Roth 401(k) analysis is given;*)
(* infl is I.  The incomes tried are those whose inflated amount is a      *)
(* whole number of dollars, the amounts the tax engine is modelled on.     *)
(***************************************************************************)
WholeDollars(amount) == MoneyUnit % amount.d = 0

\* with a growth rate of 3.5% the growth after the drag is below I
OrchestratorGrowthRates == GrowthRates \cup {R(7, 200), R(0 - 5, 100)}

InitOrchestrator ==
    /\ pc = "ready"
    /\ income \in 0..MaxQuality
    /\ gain = 0
    /\ status \in AnalysisStatuses
    /\ dur \in 0..MaxRetire
    /\ ret \in OrchestratorGrowthRates
    /\ infl = I
    /\ scenario \in
           {s \in [years : 0..MaxInvest, goal : Goals, match : Matches,
                   limit_ira : Ceilings, limit_401k : Ceilings,
                   current : {income}] :
               WholeDollars(inflated(R(income, 1), s.years))}
    /\ result = NoResult

AnalyzeRetirementOptionsCall ==
    /\ pc = "ready"
    /\ pc' = "analyze_retirement_options"
    /\ result' = analyze_retirement_options(R(income, 1), ret, scenario.years,
                                             dur, scenario.goal, status,
                                             scenario.match, scenario.limit_401k,
                                             scenario.limit_ira)
    /\ UNCHANGED args

NextOrchestrator == AnalyzeRetirementOptionsCall

SpecOrchestrator == InitOrchestrator /\ [][NextOrchestrator]_vars

(***************************************************************************)
(* Calls of the orchestrator by a caller who has an inflation rate of its  *)
(* own in mind: infl is that rate.  The signature of the orchestrator has  *)
(* no argument for it, so the call is the same call.                       *)
(***************************************************************************)
InitConfigured ==
    /\ pc = "ready"
    /\ income \in 0..MaxQuality
    /\ gain = 0
    /\ status = "single"
    /\ dur \in 0..MaxRetire
    /\ ret \in GrowthRates
    /\ infl \in InflationRates
    /\ scenario \in
           {s \in [years : 0..MaxInvest, goal : Goals, match : Matches,
                   limit_ira : Ceilings, limit_401k : Ceilings,
                   current : {income}] :
               WholeDollars(inflated(R(income, 1), s.years))}
    /\ result = NoResult

NextConfigured == AnalyzeRetirementOptionsCall

SpecConfigured == InitConfigured /\ [][NextConfigured]_vars

(***************************************************************************)
(* Calls of either copy of the orchestrator on the same scenario, drawn as *)
(* for the orchestrator above.                                             *)
(***************************************************************************)
FinancialPlanningCall ==
    /\ pc = "ready"
    /\ pc' = "financial_planning.analyze_retirement_options"
    /\ result' = fp_analyze_retirement_options(R(income, 1), ret, scenario.years,
                                                dur, scenario.goal, status,
                                                scenario.match, scenario.limit_401k,
                                                scenario.limit_ira)
    /\ UNCHANGED args

NextCopies ==
    \/ AnalyzeRetirementOptionsCall
    \/ FinancialPlanningCall

SpecCopies == InitOrchestrator /\ [][NextCopies]_vars

(***************************************************************************)
(* Properties of the tax engine, checked under SpecTax.                    *)
(***************************************************************************)
\* the part of the taxable income t lying between the upper bound of
\* bracket k-1 (0 for the first) and the upper bound of bracket k
PartInBracket(table, k, t) ==
    LET lo == IF k = 1 THEN 0 ELSE table[k - 1][1].v
        hi == IF table[k][1].inf THEN t ELSE Min(t, table[k][1].v)
    IN  Max(0, hi - lo)

RECURSIVE SumOfParts(_, _, _)
SumOfParts(table, k, t) ==
    IF k = 0 THEN 0 ELSE SumOfParts(table, k - 1, t) + PartInBracket(table, k, t)

RECURSIVE MarginalTax(_, _, _)
MarginalTax(table, k, t) ==
    IF k = 0
    THEN 0
    ELSE MarginalTax(table, k - 1, t) + table[k][2] * PartInBracket(table, k, t)

\* Social Security up to the wage cap, Medicare on all wages, the surcharge
\* on what lies strictly above the threshold of the status
FicaDue(inc, st) ==
    LET capped == IF inc > social_security_cap THEN social_security_cap ELSE inc
        above == IF inc > addl_medicare_threshold[st]
                 THEN inc - addl_medicare_threshold[st]
                 ELSE 0
    IN  Rate(62, 1000) * capped + Rate(145, 10000) * inc + Rate(9, 1000) * above

\* C1: for every filing status and non-negative gross income, the post-tax
\* income returned is gross - income tax - FICA, where the income tax is the
\* marginal-bracket tax of max(0, gross - standard deduction): the sum over
\* the brackets of rate x the part of the taxable income inside the bracket,
\* the parts adding up to the taxable income (nothing is taxed twice).
C1_MarginalBracketTax ==
    (pc = "calculate_post_tax_income" /\ status \in FilingStatuses) =>
        LET table == brackets[status]
            t == IF income > std_deduction[status]
                 THEN income - std_deduction[status]
                 ELSE 0
        IN  /\ result.kind = "ok"
            /\ SumOfParts(table, Len(table), t) = t
            /\ result.value =
                   income * Unit - MarginalTax(table, Len(table), t)
                       - FicaDue(income, status)

\* a call whose taxable income ends strictly inside the fourth bracket, so
\* that three brackets are taxed in full and the fourth is prorated
C1_Witness ==
    /\ pc = "calculate_post_tax_income"
    /\ status = "single"
    /\ income = 3 * IncomeStep
    /\ result.kind = "ok"
    /\ result.value < income * Unit - FicaDue(income, status)

\* C2: every function that accepts a filing status rejects a status outside
\* the four known ones with the invalid-filing-status error.
C2_UnknownStatusRejectedAsInvalid ==
    (pc \in {"calculate_fica", "calculate_post_tax_income",
             "calculate_capital_gains_tax"}
        /\ status \notin FilingStatuses) =>
        result.kind = "InvalidFilingStatus"

\* C3: for every non-negative gross income and every filing status the
\* post-tax income is at most the gross income and the effective rate r
\* satisfies 0 <= r < 1.
C3_NetAtMostGross ==
    (pc = "calculate_post_tax_income" /\ status \in FilingStatuses) =>
        /\ result.kind = "ok"
        /\ result.value <= income * Unit
        /\ result.rate.d > 0
        /\ 0 <= result.rate.n
        /\ result.rate.n < result.rate.d

\* a call on the highest income of the grid, taxed in the top bracket
C3_Witness ==
    /\ pc = "calculate_post_tax_income"
    /\ income = MaxTaxIncome
    /\ status = "married_separate"
    /\ result.kind = "ok"
    /\ result.rate.n > 0

\* C4: for each filing status, calculate_post_tax_income(0, status) returns
\* (0, 0), and no division by zero occurs.
C4_ZeroIncome ==
    (pc = "calculate_post_tax_income" /\ income = 0 /\ status \in FilingStatuses) =>
        /\ result.kind = "ok"
        /\ result.value = 0
        /\ result.rate.n = 0
        /\ result.rate.d # 0

C4_Witness ==
    /\ pc = "calculate_post_tax_income"
    /\ income = 0
    /\ status = "head_household"
    /\ result.kind = "ok"

\* C5: calculate_fica is Social Security rate x min(income, wage cap) +
\* Medicare rate x income + surcharge rate x (income - threshold) for an
\* income strictly above the threshold of the status; an income exactly at
\* the threshold pays no surcharge and an income above the wage cap pays the
\* Social Security tax of the cap.
C5_FicaFormula ==
    (pc = "calculate_fica" /\ status \in FilingStatuses) =>
        /\ result.kind = "ok"
        /\ result.value = FicaDue(income, status)
        /\ income = addl_medicare_threshold[status] =>
               result.value =
                   Rate(62, 1000)
                           * (IF income > social_security_cap
                              THEN social_security_cap
                              ELSE income)
                       + Rate(145, 10000) * income
        /\ income >= social_security_cap =>
               result.value - Rate(145, 10000) * income
                       - (IF income > addl_medicare_threshold[status]
                          THEN Rate(9, 1000) * (income - addl_medicare_threshold[status])
                          ELSE 0)
                   = Rate(62, 1000) * social_security_cap

\* an income exactly at the surcharge threshold, which is above the wage cap
C5_Witness ==
    /\ pc = "calculate_fica"
    /\ status = "married_joint"
    /\ income = addl_medicare_threshold[status]
    /\ income > social_security_cap
    /\ result.kind = "ok"

\* the first tier, in ascending order, whose threshold is >= total
FirstTier(table, total) ==
    CHOOSE k \in 1..Len(table) :
        /\ LeB(total, table[k][1])
        /\ \A j \in 1..(k - 1) : ~LeB(total, table[j][1])

\* C6: for every valid filing status the capital-gains tax is gain x the rate
\* of the first tier whose threshold is >= other income + gain, applied to
\* the full gain; above every finite threshold that is the top rate of 20%.
C6_CapitalGainsTier ==
    (pc = "calculate_capital_gains_tax" /\ status \in FilingStatuses) =>
        LET table == cg_brackets[status]
            total == income + gain
        IN  /\ result.kind = "ok"
            /\ result.value = gain * table[FirstTier(table, total)][2]
            /\ table[FirstTier(table, total)][2]
                   \in {Rate(0, 100), Rate(15, 100), Rate(20, 100)}
            /\ (\A k \in 1..Len(table) :
                    ~table[k][1].inf => total > table[k][1].v) =>
                   result.value = gain * Rate(20, 100)

\* a gain that lifts the total exactly onto the threshold of the 15% tier
C6_Witness ==
    /\ pc = "calculate_capital_gains_tax"
    /\ status = "head_household"
    /\ gain = GainStep
    /\ income + gain = cg_brackets[status][2][1].v
    /\ result.kind = "ok"
    /\ result.value = gain * Rate(15, 100)

\* the post-tax income of a gross income a, in 1/Unit dollar
Net(a) == calculate_post_tax_income(a, status).value

\* C28: for each filing status the post-tax income is non-decreasing in the
\* gross income over incomes >= 0: net(a) <= net(b) whenever 0 <= a <= b,
\* across every bracket edge, the Social Security cap and the Medicare
\* surcharge threshold.  Checked against the dollar below and every lower
\* income of the grid.
C28_NetMonotone ==
    (pc = "calculate_post_tax_income" /\ result.kind = "ok") =>
        \A a \in TaxIncomes \cup {income - 1} :
            (0 <= a /\ a <= income) => Net(a) <= result.value

\* one dollar above the surcharge threshold, with a higher net income than at
\* the threshold
C28_Witness ==
    /\ pc = "calculate_post_tax_income"
    /\ result.kind = "ok"
    /\ income = addl_medicare_threshold[status] + 1
    /\ Net(income - 1) < result.value
    /\ Net(social_security_cap) < result.value

(***************************************************************************)
(* Properties of the principal formulas, checked under SpecPrincipal.      *)
(***************************************************************************)
\* return_rate - inflation_rate of the call
Spread == RSub(ret, infl)
OnePercent == R(1, 100)

\* C7: Generational, Sustainable and Supplemented fail with the
\* rate-ordering error whenever return_rate <= inflation_rate, equality
\* included, for every income and duration, and return a principal whenever
\* return_rate > inflation_rate.
C7_RateOrdering ==
    (pc \in {"generational_wealth", "comfy_retirement", "supplemented_retirement"}) =>
        /\ (ret.n * infl.d <= infl.n * ret.d) => result.kind = "RateOrderingError"
        /\ (ret.n * infl.d > infl.n * ret.d) => result.kind = "ok"

\* the Sustainable formula called with equal rates and a positive income
C7_Witness ==
    /\ pc = "comfy_retirement"
    /\ ret = infl
    /\ income > 0
    /\ result.kind = "RateOrderingError"

\* C8 as stated: with return_rate <= inflation_rate + growth_increment the
\* Nobility formula warns, raises no exception and returns the value the
\* Generational formula returns for the same arguments; above that it
\* returns income / (return - inflation - growth_increment) without the
\* fallback warning.
C8_FallbackNeverRaises ==
    (pc = "nobility_wealth") =>
        IF RLe(ret, RAdd(infl, NG))
        THEN LET g == generational_wealth(R(income, 1), dur, ret, infl)
             IN  /\ "fallback" \in result.warnings
                 /\ result.kind = "ok"
                 /\ g.kind = "ok"
                 /\ result.value = g.value
        ELSE /\ result.kind = "ok"
             /\ "fallback" \notin result.warnings
             /\ result.value = RDiv(R(income, 1), RSub(Spread, NG))

\* C8 as amended: with inflation < return <= inflation + growth_increment
\* the Nobility formula warns, raises nothing and returns the Generational
\* value income / (return - inflation); with return <= inflation it warns
\* and then fails with the rate-ordering error, as the Generational formula
\* it delegates to does; with return > inflation + growth_increment it
\* returns income / (return - inflation - growth_increment) without the
\* fallback warning.
C8_FallbackAsGenerational ==
    (pc = "nobility_wealth") =>
        LET g == generational_wealth(R(income, 1), dur, ret, infl)
        IN  /\ (RLt(Zero, Spread) /\ RLe(Spread, NG)) =>
                   /\ "fallback" \in result.warnings
                   /\ result.kind = "ok"
                   /\ result.value = RDiv(R(income, 1), Spread)
                   /\ g.kind = "ok" /\ result.value = g.value
            /\ RLe(Spread, Zero) =>
                   /\ "fallback" \in result.warnings
                   /\ result.kind = "RateOrderingError"
                   /\ g.kind = "RateOrderingError"
            /\ RLt(NG, Spread) =>
                   /\ "fallback" \notin result.warnings
                   /\ result.kind = "ok"
                   /\ result.value = RDiv(R(income, 1), RSub(Spread, NG))

\* the fallback taken exactly at return = inflation + growth_increment
C8_Witness ==
    /\ pc = "nobility_wealth"
    /\ Spread = NG
    /\ income > 0
    /\ "fallback" \in result.warnings
    /\ result.kind = "ok"
    /\ result.value = RDiv(R(income, 1), Spread)

\* C9: the Generational formula emits its precision warning exactly when
\* 0 < return_rate - inflation_rate < 1%; the call then still succeeds and
\* returns income / (return_rate - inflation_rate), as it does without the
\* warning when the difference is 1% or more.
C9_PrecisionWarning ==
    (pc = "generational_wealth") =>
        /\ ("precision" \in result.warnings)
               <=> (RLt(Zero, Spread) /\ RLt(Spread, OnePercent))
        /\ RLt(Zero, Spread) =>
               /\ result.kind = "ok"
               /\ result.value = RDiv(R(income, 1), Spread)

\* a call with the rates half a percent apart: warned, and answered
C9_Witness ==
    /\ pc = "generational_wealth"
    /\ RLt(Zero, Spread)
    /\ RLt(Spread, OnePercent)
    /\ income > 0
    /\ "precision" \in result.warnings
    /\ result.kind = "ok"

\* C10: for all inputs the Supplemented principal is the Sustainable
\* principal of income x 0.40 with the same duration and rates, and the
\* call succeeds or fails as Sustainable does on those arguments.
C10_SupplementedIsScaledSustainable ==
    (pc = "supplemented_retirement") =>
        LET c == comfy_retirement(R(2 * income, 5), dur, ret, infl)
        IN  /\ result.kind = c.kind
            /\ result.kind = "ok" => result.value = c.value

\* a successful call with a positive income over a positive duration
C10_Witness ==
    /\ pc = "supplemented_retirement"
    /\ income > 0
    /\ dur > 0
    /\ result.kind = "ok"
    /\ result.value # Zero

\* C13: for income >= 0 and return_rate > inflation_rate the Sustainable
\* principal approaches the Generational principal G as the duration grows:
\* it is non-decreasing in the duration, never exceeds G, and the gap
\* G - Sustainable is G x q^duration with q = (1 + inflation)/(1 + return),
\* 0 <= q < 1, which tends to 0.  For a positive income the gap is stated as
\* the share Sustainable / G = 1 - q^duration.
C13_SustainableApproachesGenerational ==
    (pc = "comfy_retirement" /\ RLt(infl, ret)) =>
        LET g == generational_wealth(R(income, 1), dur, ret, infl)
            q == RDiv(RAdd(One, infl), RAdd(One, ret))
        IN  /\ result.kind = "ok"
            /\ g.kind = "ok"
            /\ RLe(Zero, q) /\ RLt(q, One)
            /\ income = 0 => (result.value = Zero /\ g.value = Zero)
            /\ income > 0 =>
                   LET share == RDiv(result.value, g.value)
                   IN  /\ share = RSub(One, RPow(q, dur))
                       /\ RLe(share, One)
                       /\ dur >= 1 =>
                              RLe(RDiv(comfy_retirement(R(income, 1), dur - 1,
                                                        ret, infl).value,
                                       g.value),
                                  share)

\* a Sustainable principal strictly between 0 and the Generational one
C13_Witness ==
    /\ pc = "comfy_retirement"
    /\ RLt(infl, ret)
    /\ income > 0
    /\ dur >= 2
    /\ result.kind = "ok"
    /\ RLt(Zero, result.value)
    /\ RLt(RDiv(result.value, RDiv(R(income, 1), RSub(ret, infl))), One)

\* the four formulas on the arguments of the call
OwnFormula(goal) ==
    CASE goal = "Supplemented" -> supplemented_retirement(R(income, 1), dur, ret, infl)
      [] goal = "Sustainable" -> comfy_retirement(R(income, 1), dur, ret, infl)
      [] goal = "Generational" -> generational_wealth(R(income, 1), dur, ret, infl)
      [] goal = "Nobility" -> nobility_wealth(R(income, 1), dur, ret, infl)

\* C27: for income >= 0, duration >= 0 and return_rate > inflation_rate the
\* four principals are ordered Supplemented <= Sustainable <= Generational <=
\* Nobility, and calculate_principal_by_goal returns for each goal the value
\* of that goal's own formula.
C27_GoalsOrdered ==
    (pc = "calculate_principal_by_goal") =>
        /\ result = OwnFormula(scenario.goal)
        /\ RLt(infl, ret) =>
               /\ \A goal \in Goals : OwnFormula(goal).kind = "ok"
               /\ RLe(OwnFormula("Supplemented").value,
                      OwnFormula("Sustainable").value)
               /\ RLe(OwnFormula("Sustainable").value,
                      OwnFormula("Generational").value)
               /\ RLe(OwnFormula("Generational").value,
                      OwnFormula("Nobility").value)

\* a dispatch to Nobility where the four principals are strictly ordered
C27_Witness ==
    /\ pc = "calculate_principal_by_goal"
    /\ scenario.goal = "Nobility"
    /\ income > 0
    /\ dur >= 1
    /\ RLt(RAdd(infl, NG), ret)
    /\ result.kind = "ok"
    /\ RLt(OwnFormula("Supplemented").value, OwnFormula("Sustainable").value)
    /\ RLt(OwnFormula("Sustainable").value, OwnFormula("Generational").value)
    /\ RLt(OwnFormula("Generational").value, result.value)

(***************************************************************************)
(* Properties of contribution sizing, checked under SpecSizing.            *)
(***************************************************************************)
\* (1 + ret)^k, by repeated multiplication
RECURSIVE Growth(_)
Growth(k) == IF k = 0 THEN One ELSE RMul(RAdd(One, ret), Growth(k - 1))

\* C11: required_constant_contribution fails with the invalid-rate error
\* whenever rate <= 0, rate = 0 included, for every target and years; for
\* rate > 0 and years >= 1 it returns target x rate / ((1 + rate)^years - 1).
C11_InvalidRate ==
    (pc = "required_constant_contribution") =>
        /\ ret.n <= 0 => result.kind = "InvalidRate"
        /\ (ret.n > 0 /\ dur >= 1) =>
               /\ result.kind = "ok"
               /\ RMul(result.value, RSub(Growth(dur), One))
                      = RMul(R(income, 1), ret)

\* a call with rate 0 and a positive target over a positive number of years
C11_Witness ==
    /\ pc = "required_constant_contribution"
    /\ ret = Zero
    /\ income > 0
    /\ dur > 0
    /\ result.kind = "InvalidRate"

\* C12: contribution sizing and the future value of an ordinary annuity are
\* inverses: for every target, rate > 0 and years >= 1,
\* constant_contribution(rate, years, required_constant_contribution(target,
\* rate, years)) is the target.
C12_RoundTrip ==
    (pc = "constant_contribution_of_required" /\ ret.n > 0 /\ dur >= 1) =>
        /\ result.kind = "ok"
        /\ result.value = R(income, 1)

\* a round trip over two years or more with a positive target
C12_Witness ==
    /\ pc = "constant_contribution_of_required"
    /\ ret.n > 0
    /\ dur >= 2
    /\ income > 0
    /\ result.kind = "ok"
    /\ result.value = R(income, 1)

\* C23, as stated: a call returns a result or fails with one of the three
\* errors of the taxonomy (invalid filing status, rate ordering, invalid
\* rate), also for 0 years; no division by zero and no failed table lookup is
\* reachable.  Contribution sizing over 0 years divides by (1 + rate)^0 - 1.
C23_OnlyTaxonomyErrors ==
    result.kind \in
        {"none", "ok", "InvalidFilingStatus", "RateOrderingError", "InvalidRate"}

(***************************************************************************)
(* Properties of the orchestrator, checked under SpecOrchestrator.         *)
(***************************************************************************)
\* (1 + 0.03)^k, the growth of prices over k years
RECURSIVE PriceLevel(_)
PriceLevel(k) == IF k = 0 THEN One ELSE RMul(PriceLevel(k - 1), R(103, 100))

AccountNames ==
    {"Brokerage Account", "Traditional IRA", "Roth IRA", "Traditional 401k",
     "Roth 401k"}

\* C14: analyze_retirement_options computes one future income
\* income x (1 + inflation)^years and hands it, with the same inflation,
\* growth rate and horizons, to the five analyzers; a successful result has
\* exactly the five account names as keys, each with the result of its
\* analyzer; the IRA analyzers are given the IRA ceiling, the 401(k)
\* analyzers the 401(k) ceiling and the employer match.
C14_OrchestratorSharesInputs ==
    (pc = "analyze_retirement_options" /\ result.kind = "ok") =>
        LET future_income == RMul(R(income, 1), PriceLevel(scenario.years))
        IN  /\ DOMAIN result.value = AccountNames
            /\ result.value["Brokerage Account"] =
                   analyze_brokerage_account(future_income, ret, R(3, 100),
                       scenario.years, dur, scenario.goal).value
            /\ result.value["Traditional IRA"] =
                   analyze_traditional_ira(future_income, ret, R(3, 100),
                       scenario.years, dur, scenario.goal, status,
                       scenario.limit_ira).value
            /\ result.value["Roth IRA"] =
                   analyze_roth_ira(future_income, ret, R(3, 100),
                       scenario.years, dur, scenario.goal,
                       scenario.limit_ira).value
            /\ result.value["Traditional 401k"] =
                   analyze_traditional_401k(future_income, ret, R(3, 100),
                       scenario.years, dur, scenario.goal, status,
                       scenario.limit_401k, scenario.match).value
            /\ result.value["Roth 401k"] =
                   analyze_roth_401k(future_income, ret, R(3, 100),
                       scenario.years, dur, scenario.goal, status,
                       scenario.limit_401k, scenario.match, R(income, 1)).value

\* a successful analysis over two years of saving in which the same required
\* contribution is over the IRA ceiling and within the 401(k) ceiling
C14_Witness ==
    /\ pc = "analyze_retirement_options"
    /\ result.kind = "ok"
    /\ income > 0
    /\ scenario.years = 2
    /\ result.value["Roth IRA"]["Contribution Limit Met?"] = "Yes"
    /\ result.value["Roth 401k"]["Contribution Limit Met?"] = "No"

\* the k-th analyzer called on its own with the arguments the orchestrator
\* hands it
Alone(k) ==
    LET future_income == RMul(R(income, 1), PriceLevel(scenario.years))
    IN  CASE k = 1 ->
                 analyze_brokerage_account(future_income, ret, R(3, 100),
                     scenario.years, dur, scenario.goal)
          [] k = 2 ->
                 analyze_traditional_ira(future_income, ret, R(3, 100),
                     scenario.years, dur, scenario.goal, status,
                     scenario.limit_ira)
          [] k = 3 ->
                 analyze_roth_ira(future_income, ret, R(3, 100),
                     scenario.years, dur, scenario.goal, scenario.limit_ira)
          [] k = 4 ->
                 analyze_traditional_401k(future_income, ret, R(3, 100),
                     scenario.years, dur, scenario.goal, status,
                     scenario.limit_401k, scenario.match)
          [] k = 5 ->
                 analyze_roth_401k(future_income, ret, R(3, 100),
                     scenario.years, dur, scenario.goal, status,
                     scenario.limit_401k, scenario.match, R(income, 1))

\* growth x (1 - 15%) <= inflation
DragGate == RLe(RMul(ret, R(85, 100)), R(3, 100))

\* C24: analyze_retirement_options is all-or-nothing and gated by the
\* brokerage drag: for every goal, whenever growth x (1 - 15%) <= inflation
\* the call fails with the rate-ordering error of the Brokerage analyzer and
\* returns no result, even when growth > inflation; a five-entry result is
\* returned only if all five analyzers succeed, and a failure of any of them
\* is the failure of the call.
C24_AllOrNothing ==
    (pc = "analyze_retirement_options") =>
        /\ DragGate =>
               /\ result.kind = "RateOrderingError"
               /\ Alone(1).kind = "RateOrderingError"
        /\ result.kind = "ok" =>
               /\ DOMAIN result.value = AccountNames
               /\ \A k \in 1..5 : Alone(k).kind = "ok"
        /\ result.kind # "ok" =>
               /\ result.value = 0
               /\ \E k \in 1..5 :
                      /\ Alone(k).kind = result.kind
                      /\ \A j \in 1..(k - 1) : Alone(j).kind = "ok"

\* a call that fails on the drag alone: growth is above inflation and the
\* other four analyzers succeed with the same arguments
C24_Witness ==
    /\ pc = "analyze_retirement_options"
    /\ result.kind = "RateOrderingError"
    /\ RLt(R(3, 100), ret)
    /\ income = 1
    /\ scenario.years = 1
    /\ status = "single"
    /\ \A k \in 2..5 : Alone(k).kind = "ok"

\* C25: through analyze_retirement_options the invalid-rate error of
\* contribution sizing is never the reported failure: for every goal and every
\* growth rate <= 0 the principal formula of the Brokerage analyzer fails
\* first, with the rate-ordering error.
C25_InvalidRateMasked ==
    (pc = "analyze_retirement_options") =>
        /\ result.kind # "InvalidRate"
        /\ RLe(ret, Zero) =>
               /\ result.kind = "RateOrderingError"
               /\ Alone(1).kind = "RateOrderingError"

\* a call with a negative growth rate, which sizing alone rejects as invalid
C25_Witness ==
    /\ pc = "analyze_retirement_options"
    /\ RLt(ret, Zero)
    /\ income > 0
    /\ scenario.years >= 1
    /\ result.kind = "RateOrderingError"
    /\ required_constant_contribution(R(income, 1), ret, scenario.years).kind
           = "InvalidRate"

\* C26, as stated: with an unknown filing status and valid rates the
\* orchestrator fails with the invalid-filing-status error; with an unknown
\* status and a rate-ordering violation it fails with the rate-ordering error;
\* it never returns a result for an unknown status; the Traditional analyzers
\* called alone check the status before the rate ordering, the Roth 401(k)
\* analyzer the rate ordering before the status.  With 0 years of saving the
\* Brokerage analyzer of the orchestrator fails first, dividing by zero.
C26_ErrorPrecedence ==
    /\ (pc = "analyze_retirement_options" /\ status = UnknownStatus) =>
           /\ result.kind # "ok"
           /\ DragGate => result.kind = "RateOrderingError"
           /\ ~DragGate => result.kind = "InvalidFilingStatus"
    /\ (/\ pc \in {"analyze_traditional_ira", "analyze_traditional_401k"}
        /\ status = UnknownStatus) =>
           result.kind = "InvalidFilingStatus"
    /\ (pc = "analyze_roth_401k" /\ status = UnknownStatus /\ RLe(ret, infl)) =>
           result.kind = "RateOrderingError"

(***************************************************************************)
(* Properties of the account analyzers, checked under SpecAnalyzers.       *)
(***************************************************************************)
AnalyzerCalls ==
    {"analyze_brokerage_account", "analyze_traditional_ira", "analyze_roth_ira",
     "analyze_traditional_401k", "analyze_roth_401k"}

IsAmount(v) == DOMAIN v = {"n", "d"} /\ v.n \in Int /\ v.d \in Nat \ {0}

\* the contribution that contribution sizing returns for the principal the
\* result reports
RequiredContribution ==
    required_constant_contribution(result.value["Principal Required"], ret,
                                   scenario.years).value

\* C15: every successful result of each of the five analyzers has the fields
\* Principal Required and Yearly Contribution, with numeric values, whatever
\* account-specific fields come with them.
C15_CanonicalFields ==
    (pc \in AnalyzerCalls /\ result.kind = "ok") =>
        /\ {"Principal Required", "Yearly Contribution"} \subseteq DOMAIN result.value
        /\ IsAmount(result.value["Principal Required"])
        /\ IsAmount(result.value["Yearly Contribution"])

\* a brokerage result with a positive principal and contribution
C15_Witness ==
    /\ pc = "analyze_brokerage_account"
    /\ result.kind = "ok"
    /\ DOMAIN result.value = {"Principal Required", "Yearly Contribution"}
    /\ RLt(Zero, result.value["Principal Required"])
    /\ RLt(Zero, result.value["Yearly Contribution"])

\* C16: in every successful Traditional 401(k) and Roth 401(k) result, for
\* every employer-match fraction, the employee contribution plus the employer
\* contribution is the Total Contribution.
C16_SharesAddUpToTotal ==
    /\ (pc = "analyze_traditional_401k" /\ result.kind = "ok") =>
           RAdd(result.value["Employee Contribution"],
                result.value["Employer Contribution"])
               = result.value["Total Contribution"]
    /\ (pc = "analyze_roth_401k" /\ result.kind = "ok") =>
           RAdd(result.value["Employee Contribution After-Tax"],
                result.value["Employer Contribution Traditional"])
               = result.value["Total Contribution"]

\* a Roth 401(k) result with two positive shares
C16_Witness ==
    /\ pc = "analyze_roth_401k"
    /\ result.kind = "ok"
    /\ RLt(Zero, result.value["Employee Contribution After-Tax"])
    /\ RLt(Zero, result.value["Employer Contribution Traditional"])
    /\ RLt(result.value["Employee Contribution After-Tax"],
           result.value["Total Contribution"])

\* C17, as stated: in the Traditional 401(k) and Roth 401(k) analyzers, for a
\* match fraction in [0, 1], the employer share is match x employee share
\* and the two shares together are the required contribution.  The code takes
\* the employee share as required x (1 - match), so the shares add up to
\* required x (1 - match^2).
C17_SharesMakeUpRequired ==
    /\ (pc = "analyze_traditional_401k" /\ result.kind = "ok") =>
           /\ result.value["Employer Contribution"] =
                  RMul(scenario.match, result.value["Employee Contribution"])
           /\ RAdd(result.value["Employee Contribution"],
                   result.value["Employer Contribution"]) = RequiredContribution
    /\ (pc = "analyze_roth_401k" /\ result.kind = "ok") =>
           /\ result.value["Employer Contribution Traditional"] =
                  RMul(scenario.match,
                       result.value["Employee Contribution After-Tax"])
           /\ RAdd(result.value["Employee Contribution After-Tax"],
                   result.value["Employer Contribution Traditional"])
                  = RequiredContribution

\* C18, as stated: whenever the uncapped required contribution exceeds the IRA
\* ceiling, the Yearly Contribution of the Roth IRA result is capped at the
\* ceiling (never exceeds it) and the limit flag is "Yes".  The code reports
\* the uncapped contribution.
C18_RothIraCapped ==
    (/\ pc = "analyze_roth_ira"
     /\ result.kind = "ok"
     /\ RLt(scenario.limit_ira, RequiredContribution)) =>
        /\ RLe(result.value["Yearly Contribution"], scenario.limit_ira)
        /\ result.value["Contribution Limit Met?"] = "Yes"

\* C19: in the Traditional IRA and Roth IRA results the limit flag is "Yes"
\* or "No", and "Yes" exactly when the required contribution is strictly
\* greater than the IRA ceiling; a contribution equal to the ceiling gives
\* "No".
C19_LimitFlag ==
    (pc \in {"analyze_traditional_ira", "analyze_roth_ira"} /\ result.kind = "ok") =>
        /\ result.value["Contribution Limit Met?"] \in {"Yes", "No"}
        /\ result.value["Contribution Limit Met?"] = "Yes"
               <=> RLt(scenario.limit_ira, RequiredContribution)
        /\ RequiredContribution = scenario.limit_ira
               => result.value["Contribution Limit Met?"] = "No"

\* a positive required contribution equal to the ceiling
C19_Witness ==
    /\ pc = "analyze_roth_ira"
    /\ result.kind = "ok"
    /\ RLt(Zero, scenario.limit_ira)
    /\ RequiredContribution = scenario.limit_ira
    /\ result.value["Contribution Limit Met?"] = "No"

\* the effective rate calculate_post_tax_income returns for the future income
WithdrawalTaxRate ==
    LET t == calculate_post_tax_income(income * MoneyUnit, status)
    IN  R(t.rate.n, t.rate.d)

\* C20: the Traditional IRA and Traditional 401(k) analyzers compute the
\* principal on future income / (1 - withdrawal_tax_rate), the rate being the
\* effective rate of calculate_post_tax_income(future income, filing status);
\* the Roth IRA and Roth 401(k) analyzers compute it on the future income as
\* given; all four use the full growth rate.
C20_PrincipalBase ==
    /\ (/\ pc \in {"analyze_traditional_ira", "analyze_traditional_401k"}
        /\ result.kind = "ok") =>
           result.value["Principal Required"] =
               calculate_principal_by_goal(
                   RDiv(R(income, 1), RSub(One, WithdrawalTaxRate)), dur, ret,
                   infl, scenario.goal).value
    /\ (pc \in {"analyze_roth_ira", "analyze_roth_401k"} /\ result.kind = "ok") =>
           result.value["Principal Required"] =
               calculate_principal_by_goal(R(income, 1), dur, ret, infl,
                                           scenario.goal).value

\* a Traditional principal above the one on the unmodified future income
C20_Witness ==
    /\ pc = "analyze_traditional_401k"
    /\ result.kind = "ok"
    /\ RLt(Zero, WithdrawalTaxRate)
    /\ RLt(calculate_principal_by_goal(R(income, 1), dur, ret, infl,
                                       scenario.goal).value,
           result.value["Principal Required"])

\* C21: the Brokerage analyzer computes the principal on the future income as
\* given, with growth x (1 - 15%) as the return rate of the goal formula; the
\* contribution is sized from that principal over the accumulation years and
\* reported as sized; the result has no limit flag.
C21_BrokerageDrag ==
    (pc = "analyze_brokerage_account" /\ result.kind = "ok") =>
        /\ DOMAIN result.value = {"Principal Required", "Yearly Contribution"}
        /\ result.value["Principal Required"] =
               calculate_principal_by_goal(R(income, 1), dur,
                                           RMul(ret, R(85, 100)), infl,
                                           scenario.goal).value
        /\ result.value["Yearly Contribution"] = RequiredContribution

\* a brokerage principal above the one the undiminished growth rate asks for
C21_Witness ==
    /\ pc = "analyze_brokerage_account"
    /\ result.kind = "ok"
    /\ income > 0
    /\ scenario.years = 2
    /\ RLt(calculate_principal_by_goal(R(income, 1), dur, ret, infl,
                                       scenario.goal).value,
           result.value["Principal Required"])

\* C29: in the Traditional 401(k) and Roth 401(k) results the limit flag is
\* "Yes" exactly when the un-split base contribution strictly exceeds the
\* 401(k) ceiling, while Yearly Contribution is the employee share
\* base x (1 - match); so for a match > 0 the flag can be "Yes" while Yearly
\* Contribution and Total Contribution are both at or below the ceiling.
C29_FlagOnBaseContribution ==
    (pc \in {"analyze_traditional_401k", "analyze_roth_401k"} /\ result.kind = "ok") =>
        /\ result.value["Contribution Limit Met?"] = "Yes"
               <=> RLt(scenario.limit_401k, RequiredContribution)
        /\ result.value["Yearly Contribution"] =
               RMul(RequiredContribution, RSub(One, scenario.match))

\* a flagged result whose reported contributions are within the ceiling,
\* with a match strictly between 0 and 1
C29_Witness ==
    /\ pc = "analyze_traditional_401k"
    /\ result.kind = "ok"
    /\ RLt(Zero, scenario.match) /\ RLt(scenario.match, One)
    /\ result.value["Contribution Limit Met?"] = "Yes"
    /\ RLe(result.value["Yearly Contribution"], scenario.limit_401k)
    /\ RLe(result.value["Total Contribution"], scenario.limit_401k)

(***************************************************************************)
(* Properties of the configuration, checked under SpecConfigured.          *)
(***************************************************************************)
\* (1 + infl)^k
RECURSIVE WantedPriceLevel(_)
WantedPriceLevel(k) ==
    IF k = 0 THEN One ELSE RMul(WantedPriceLevel(k - 1), RAdd(One, infl))

\* C22, as stated: the inflation rate, the capital-gains drag, the employer
\* match, both ceilings, the self-funded fraction and the real-growth
\* increment are parameters of the orchestrator, and a call uses the value
\* supplied.  Stated for the values a call can be asked to use here: the
\* employer match and the two ceilings (which are arguments) and the
\* inflation rate (which is the constant I, whatever rate the caller has in
\* mind).
C22_SuppliedValuesUsed ==
    (pc = "analyze_retirement_options" /\ result.kind = "ok") =>
        LET future_income == RMul(R(income, 1), WantedPriceLevel(scenario.years))
            roth_ira == analyze_roth_ira(future_income, ret, infl,
                            scenario.years, dur, scenario.goal,
                            scenario.limit_ira)
            roth_401k == analyze_roth_401k(future_income, ret, infl,
                             scenario.years, dur, scenario.goal, status,
                             scenario.limit_401k, scenario.match, R(income, 1))
        IN  /\ roth_ira.kind = "ok"
            /\ roth_401k.kind = "ok"
            /\ result.value["Roth IRA"] = roth_ira.value
            /\ result.value["Roth 401k"] = roth_401k.value

(***************************************************************************)
(* Properties of the two copies, checked under SpecCopies.                 *)
(***************************************************************************)
\* What each copy of the orchestrator produces for the scenario of the state.
OutcomeOfRetirementPlanner ==
    analyze_retirement_options(R(income, 1), ret, scenario.years, dur,
                               scenario.goal, status, scenario.match,
                               scenario.limit_401k, scenario.limit_ira)

OutcomeOfFinancialPlanning ==
    fp_analyze_retirement_options(R(income, 1), ret, scenario.years, dur,
                                  scenario.goal, status, scenario.match,
                                  scenario.limit_401k, scenario.limit_ira)

\* C30: for every scenario the orchestrator of financial_planning.py and the
\* orchestrator of retirement_planner.py (on finlib.py) produce the same
\* outcome: the same exception, or the same five results with the same
\* field values, and the same advisories.
C30_CopiesEquivalent ==
    /\ pc = "analyze_retirement_options" => result = OutcomeOfFinancialPlanning
    /\ pc = "financial_planning.analyze_retirement_options" =>
           result = OutcomeOfRetirementPlanner

\* Reached: the single-file copy returns five results, one of them a flagged
\* 401(k) contribution.
C30_Witness ==
    /\ pc = "financial_planning.analyze_retirement_options"
    /\ result.kind = "ok"
    /\ DOMAIN result.value = AccountNames
    /\ result.value["Traditional 401k"]["Contribution Limit Met?"] = "Yes"
    /\ result = OutcomeOfRetirementPlanner

====
